---------------------------- MODULE Spec2Model ----------------------------
(***************************************************************************)
(* Model of the place/location resolution subsystem of the Somali          *)
(* geography API: the place search handler (places.py) and the Somalia     *)
(* location code helpers (olc_helper.py).                                  *)
(*                                                                         *)
(* Strings are sequences of one-character strings, so that lower(),        *)
(* upper(), slicing, substring tests and split(":") are computed and not   *)
(* assumed.  Coordinates are integers in units of 1/80000 degree (one      *)
(* tenth of the height of a 10-digit Open Location Code cell), so that     *)
(* every bound of the region table, every cell bound and every cell        *)
(* centre is an exact integer.                                             *)
(***************************************************************************)
EXTENDS Integers, Sequences, FiniteSets, TLC

VARIABLES districts, regions, call, ret, threads, db

vars == <<districts, regions, call, ret, threads, db>>

(***************************************************************************)
(* Bounds of the model.                                                    *)
(***************************************************************************)
MaxDistricts == 2
MaxRegions == 2
MaxLimit == 3
\* Rows of the District table in the over-fetch datasets.
OverfetchRows == 5
\* Request-handling threads that run at the same time.
MaxThreads == 2
\* Rows of the Road table.
MaxRoads == 2
\* The largest skip and the largest limit of a list request.
MaxSkip == 1
MaxPage == 2
\* Rows of the Airport table before it is cleaned.
MaxAirports == 3
\* Features of a file the loader reads.
MaxFeatures == 2

(***************************************************************************)
(* Strings.                                                                *)
(***************************************************************************)
\* Python's None for an Optional[str]; no string has a multi-character element.
None == <<"<None>">>

UpperCs == <<"A","B","C","D","E","F","G","H","I","J","K","L","M",
             "N","O","P","Q","R","S","T","U","V","W","X","Y","Z">>
LowerCs == <<"a","b","c","d","e","f","g","h","i","j","k","l","m",
             "n","o","p","q","r","s","t","u","v","w","x","y","z">>

LowerChar(c) ==
    IF \E i \in 1..Len(UpperCs) : UpperCs[i] = c
    THEN LowerCs[CHOOSE i \in 1..Len(UpperCs) : UpperCs[i] = c]
    ELSE c

UpperChar(c) ==
    IF \E i \in 1..Len(LowerCs) : LowerCs[i] = c
    THEN UpperCs[CHOOSE i \in 1..Len(LowerCs) : LowerCs[i] = c]
    ELSE c

\* str.lower()
Lower(s) == [i \in 1..Len(s) |-> LowerChar(s[i])]

\* str.upper()
Upper(s) == [i \in 1..Len(s) |-> UpperChar(s[i])]

\* s[:n]
Take(s, n) == SubSeq(s, 1, IF Len(s) < n THEN Len(s) ELSE n)

\* Python's `q in s` on strings
Contains(s, q) ==
    \E i \in 1..(Len(s) - Len(q) + 1) : SubSeq(s, i, i + Len(q) - 1) = q

\* SQL `s LIKE p`: "%" stands for any run of characters, "_" for any one.
RECURSIVE Like(_, _)
Like(s, p) ==
    IF p = <<>> THEN s = <<>>
    ELSE IF Head(p) = "%"
         THEN \E k \in 0..Len(s) : Like(SubSeq(s, k + 1, Len(s)), Tail(p))
         ELSE /\ s # <<>>
              /\ Head(p) = "_" \/ Head(p) = Head(s)
              /\ Like(Tail(s), Tail(p))

\* func.lower(column).contains(q): lower(column) LIKE '%' || q || '%'.  The
\* query is bound unescaped, so a "%" or "_" in it is a wildcard.
SqlContains(column, q) == Like(Lower(column), <<"%">> \o q \o <<"%">>)

\* min(a, b)
Min(a, b) == IF a < b THEN a ELSE b


\* The set as an ascending sequence: the order in which the rows of a table
\* are retrieved is the order of the table.
RECURSIVE Ascending(_)
Ascending(S) ==
    IF S = {} THEN <<>>
    ELSE LET m == CHOOSE x \in S : \A y \in S : x <= y
         IN  <<m>> \o Ascending(S \ {m})

(***************************************************************************)
(* The dataset: rows of the District and Region tables (models.py).        *)
(***************************************************************************)
Mogadishu ==
    [name |-> <<"M","o","g","a","d","i","s","h","u">>,
     region_name |-> <<"B","a","n","a","d","i","r">>,
     code |-> <<"S","O","M","-","B","N","R","-","M","O","G">>,
     aliases |-> << <<"X","a","m","a","r">> >>,
     centroid |-> <<163752, 3625456>>, population |-> 3]

\* No code: the result id falls back to SOM-HII-BEL.
Beledweyne ==
    [name |-> <<"B","e","l","e","d","w","e","y","n","e">>,
     region_name |-> <<"H","i","i","r","a","a","n">>,
     code |-> <<>>,
     aliases |-> << <<"B","e","l","e","t","w","e","y","n","e">> >>,
     centroid |-> None, population |-> 2]

\* Carries the code that Beledweyne's fallback id computes to.
BeletXaawo ==
    [name |-> <<"b","e","l","e","t","_","x">>,
     region_name |-> <<"H","i","i","r","a","a","n">>,
     code |-> <<"S","O","M","-","H","I","I","-","B","E","L">>,
     aliases |-> <<>>,
     centroid |-> None, population |-> 1]

\* A district that carries the code of the region Banadir.
BanadirTown ==
    [name |-> <<"B","a","n","a","d","i","r">>,
     region_name |-> <<"B","a","n","a","d","i","r">>,
     code |-> <<"S","O","M","-","B","N","R">>,
     aliases |-> <<>>,
     centroid |-> None, population |-> 1]

DistrictPool == {Mogadishu, Beledweyne, BeletXaawo, BanadirTown}

Banadir ==
    [name |-> <<"B","a","n","a","d","i","r">>,
     code |-> <<"S","O","M","-","B","N","R">>, population |-> 4]

Hiiraan ==
    [name |-> <<"H","i","i","r","a","a","n">>,
     code |-> <<"S","O","M","-","H","R","S">>, population |-> 2]

RegionPool == {Banadir, Hiiraan}

\* All tables of at most n rows over a pool.
Tables(pool, n) == UNION {[1..k -> pool] : k \in 0..n}

\* The search strings the requests are drawn from.
Queries ==
    { <<"x","a","m","a","r">>,
      <<"b","e","l","e","t","w","e","y","n","e">>,
      <<"B","E","L">>,
      <<"b","a","n">>,
      <<"_">>,
      <<>> }

(***************************************************************************)
(* search_places (places.py).                                              *)
(***************************************************************************)
\* The district query: rows whose lower(name) or lower(region_name) contains
\* the query, at most 2 * limit of them.
FetchDistricts(name_lower, limit) ==
    Take(Ascending({i \in 1..Len(districts) :
                      \/ SqlContains(districts[i].name, name_lower)
                      \/ SqlContains(districts[i].region_name, name_lower)}),
         limit * 2)

\* The region query: rows whose lower(name) contains the query, at most n.
FetchRegions(name_lower, n) ==
    Take(Ascending({i \in 1..Len(regions) :
                      SqlContains(regions[i].name, name_lower)}),
         n)

\* An in-memory test that compares the stored strings as they are
MatchesCaseSensitive(district, name_lower) ==
    \/ Contains(district.name, name_lower)
    \/ Contains(district.region_name, name_lower)
    \/ \E a \in 1..Len(district.aliases) :
          Contains(district.aliases[a], name_lower)

\* The in-memory test of one fetched district.
Matches(district, name_lower) ==
    LET matches == \/ Contains(Lower(district.name), name_lower)
                   \/ Contains(Lower(district.region_name), name_lower)
        aliases == district.aliases
    IN  IF ~matches
        THEN \E a \in 1..Len(aliases) : Contains(Lower(aliases[a]), name_lower)
        ELSE matches

\* A fallback id built without upper()
DistrictIdNoUpper(district) ==
    IF district.code # <<>> /\ district.code # None
    THEN district.code
    ELSE <<"S","O","M","-">> \o Take(district.region_name, 3)
         \o <<"-">> \o Take(district.name, 3)

\* district.code or f"SOM-{region_name[:3].upper()}-{name[:3].upper()}"
DistrictId(district) ==
    IF district.code # <<>> /\ district.code # None
    THEN district.code
    ELSE <<"S","O","M","-">> \o Upper(Take(district.region_name, 3))
         \o <<"-">> \o Upper(Take(district.name, 3))

\* PlaceSearchResult of a district; row is the position of the source row in
\* its table, kept to state the order of the results.
DistrictResult(i) ==
    [id |-> DistrictId(districts[i]),
     name |-> districts[i].name,
     region |-> districts[i].region_name,
     type |-> "district",
     aliases |-> districts[i].aliases,
     centroid |-> districts[i].centroid,
     population |-> districts[i].population,
     row |-> i]

\* PlaceSearchResult of a region.
RegionResult(i) ==
    [id |-> regions[i].code,
     name |-> regions[i].name,
     region |-> regions[i].name,
     type |-> "region",
     aliases |-> None,
     centroid |-> None,
     population |-> regions[i].population,
     row |-> i]

\* results.insert(0, result) in place of results.append(result)
InsertResult(results, result) == <<result>> \o results

\* results.append(result)
AppendResult(results, result) == Append(results, result)

\* A district loop without the seen_ids test
DistrictEmitsSeen(district, name_lower, seen_ids) ==
    Matches(district, name_lower)

\* Whether the district loop emits a result for a candidate.
DistrictEmits(district, name_lower, seen_ids) ==
    Matches(district, name_lower) /\ DistrictId(district) \notin seen_ids

\* The loop over the fetched districts; it breaks once limit results exist.
RECURSIVE DistrictLoop(_, _, _, _)
DistrictLoop(fetched, name_lower, limit, acc) ==
    IF fetched = <<>> THEN acc
    ELSE LET i == Head(fetched)
         IN  IF DistrictEmits(districts[i], name_lower, acc.seen_ids)
             THEN LET next == [results |-> AppendResult(acc.results, DistrictResult(i)),
                               seen_ids |-> acc.seen_ids
                                            \cup {DistrictId(districts[i])}]
                  IN  IF Len(next.results) >= limit
                      THEN next
                      ELSE DistrictLoop(Tail(fetched), name_lower, limit, next)
             ELSE DistrictLoop(Tail(fetched), name_lower, limit, acc)

\* A region loop without the seen_ids test
RegionEmitsAlways(region, seen_ids) == TRUE

\* Whether the region loop emits a result for a fetched region.
RegionEmits(region, seen_ids) == region.code \notin seen_ids

\* The loop over the fetched regions.
RECURSIVE RegionLoop(_, _)
RegionLoop(fetched, acc) ==
    IF fetched = <<>> THEN acc
    ELSE LET i == Head(fetched)
         IN  IF RegionEmits(regions[i], acc.seen_ids)
             THEN RegionLoop(Tail(fetched),
                             [results |-> AppendResult(acc.results, RegionResult(i)),
                              seen_ids |-> acc.seen_ids \cup {regions[i].code}])
             ELSE RegionLoop(Tail(fetched), acc)

\* .limit(limit) in place of .limit(limit - len(results))
RegionFetchLimitWhole(limit, n_results) == limit

\* How many regions the region query may return.
RegionFetchLimit(limit, n_results) == limit - n_results

\* The whole handler: the response {data, count}.
search_places(name, limit) ==
    LET name_lower == Lower(name)
        after_districts ==
            DistrictLoop(FetchDistricts(name_lower, limit), name_lower, limit,
                         [results |-> <<>>, seen_ids |-> {}])
        n == Len(after_districts.results)
        after_regions ==
            IF n < limit
            THEN RegionLoop(FetchRegions(name_lower, RegionFetchLimit(limit, n)),
                            after_districts)
            ELSE after_districts
    IN  [data |-> after_regions.results, count |-> Len(after_regions.results)]

(***************************************************************************)
(* The Open Location Code library that olc_helper.py imports, at the       *)
(* default code length of 10 digits.  Angles are integers in units of      *)
(* 1/80000 degree.                                                         *)
(***************************************************************************)
CODE_ALPHABET_ ==
    <<"2","3","4","5","6","7","8","9","C","F",
      "G","H","J","M","P","Q","R","V","W","X">>
SEPARATOR_ == "+"
PADDING_CHARACTER_ == "0"
SEPARATOR_POSITION_ == 8
PAIR_CODE_LENGTH_ == 10
LATITUDE_MAX_ == 90
LONGITUDE_MAX_ == 180
ENCODING_BASE_ == Len(CODE_ALPHABET_)
\* Cells per degree of a 10-digit code.
PAIR_PRECISION_ == ENCODING_BASE_ * ENCODING_BASE_ * ENCODING_BASE_

\* Units per cell of a 10-digit code (even, so that the centre of a cell is
\* a whole number of units), and units per degree.
CellUnits == 2 * 5
Degree == PAIR_PRECISION_ * CellUnits

\* A coordinate given in 1/10000 degree (2.0469 degrees is E4(20469)).
E4(n) == n * (Degree \div 10000)

\* str.find(ch): the 0-based position of the first ch, or -1
Find(s, ch) ==
    IF \E i \in 1..Len(s) : s[i] = ch
    THEN (CHOOSE i \in 1..Len(s) : s[i] = ch /\ \A j \in 1..(i - 1) : s[j] # ch) - 1
    ELSE -1

\* str.rfind(ch): the 0-based position of the last ch, or -1
RFind(s, ch) ==
    IF \E i \in 1..Len(s) : s[i] = ch
    THEN (CHOOSE i \in 1..Len(s) : s[i] = ch /\ \A j \in (i + 1)..Len(s) : s[j] # ch) - 1
    ELSE -1

\* str.count(ch)
Count(s, ch) == Cardinality({i \in 1..Len(s) : s[i] = ch})

\* s[a:b] with 0-based bounds
Slice(s, a, b) == SubSeq(s, a + 1, b)

\* The string without the characters of a set: re.sub('[+0]', '', code)
Strip(s, chars) == SelectSeq(s, LAMBDA c : c \notin chars)

\* clipLatitude
clipLatitude(latitude) ==
    Min(LATITUDE_MAX_ * Degree,
        IF latitude < -LATITUDE_MAX_ * Degree THEN -LATITUDE_MAX_ * Degree
        ELSE latitude)

\* normalizeLongitude: into [-180, 180)
RECURSIVE normalizeLongitude(_)
normalizeLongitude(longitude) ==
    IF longitude < -LONGITUDE_MAX_ * Degree
    THEN normalizeLongitude(longitude + 360 * Degree)
    ELSE IF longitude >= LONGITUDE_MAX_ * Degree
         THEN normalizeLongitude(longitude - 360 * Degree)
         ELSE longitude

\* The pair section: five pairs of digits, least significant pair first.
RECURSIVE PairSection(_, _, _, _)
PairSection(code, latVal, lngVal, n) ==
    IF n = 0 THEN code
    ELSE PairSection(<<CODE_ALPHABET_[(latVal % ENCODING_BASE_) + 1],
                       CODE_ALPHABET_[(lngVal % ENCODING_BASE_) + 1]>> \o code,
                     latVal \div ENCODING_BASE_, lngVal \div ENCODING_BASE_,
                     n - 1)

\* olc.encode(latitude, longitude): never fails; the latitude is clipped and
\* the longitude normalised, and latitude 90 is moved into the last cell.
olc_encode(latitude, longitude) ==
    LET clipped == clipLatitude(latitude)
        lng == normalizeLongitude(longitude)
        lat == IF clipped = LATITUDE_MAX_ * Degree
               THEN clipped - CellUnits ELSE clipped
        latVal == (lat + LATITUDE_MAX_ * Degree) \div CellUnits
        lngVal == (lng + LONGITUDE_MAX_ * Degree) \div CellUnits
        code == PairSection(<<>>, latVal, lngVal, PAIR_CODE_LENGTH_ \div 2)
    IN  Slice(code, 0, SEPARATOR_POSITION_) \o <<SEPARATOR_>>
        \o Slice(code, SEPARATOR_POSITION_, Len(code))

\* olc.isValid(code)
olc_isValid(code) ==
    LET sep == Find(code, SEPARATOR_)
        pad == Find(code, PADDING_CHARACTER_)
        rpad == RFind(code, PADDING_CHARACTER_) + 1
        pads == Slice(code, pad, rpad)
    IN  /\ Count(code, SEPARATOR_) <= 1
        /\ Len(code) # 1
        /\ ~(sep = -1 \/ sep > SEPARATOR_POSITION_ \/ sep % 2 = 1)
        /\ pad # -1 =>
              /\ ~(sep < SEPARATOR_POSITION_)
              /\ pad # 0
              /\ ~(Len(pads) % 2 = 1
                   \/ Count(pads, PADDING_CHARACTER_) # Len(pads))
              /\ code[Len(code)] = SEPARATOR_
        /\ Len(code) - sep - 1 # 1
        /\ \A i \in 1..Len(code) :
              \/ Find(CODE_ALPHABET_, UpperChar(code[i])) # -1
              \/ code[i] \in {SEPARATOR_, PADDING_CHARACTER_}

\* olc.isShort(code)
olc_isShort(code) ==
    /\ olc_isValid(code)
    /\ Find(code, SEPARATOR_) >= 0
    /\ Find(code, SEPARATOR_) < SEPARATOR_POSITION_

\* olc.isFull(code)
olc_isFull(code) ==
    /\ olc_isValid(code)
    /\ ~olc_isShort(code)
    /\ Find(CODE_ALPHABET_, UpperChar(code[1])) * ENCODING_BASE_
          < LATITUDE_MAX_ * 2
    /\ Len(code) > 1 =>
          Find(CODE_ALPHABET_, UpperChar(code[2])) * ENCODING_BASE_
             < LONGITUDE_MAX_ * 2

\* The loop of olc.decode over the pairs of digits from position i on: the
\* south-west corner in cells of a 10-digit code, and the place value pv of
\* the last pair.
RECURSIVE DecodePairs(_, _, _, _, _, _)
DecodePairs(code, i, digits, normalLat, normalLng, pv) ==
    IF i >= digits THEN [lat |-> normalLat, lng |-> normalLng, pv |-> pv]
    ELSE DecodePairs(code, i + 2, digits,
                     normalLat + Find(CODE_ALPHABET_, code[i + 1]) * pv,
                     normalLng + Find(CODE_ALPHABET_, code[i + 2]) * pv,
                     IF i < digits - 2 THEN pv \div ENCODING_BASE_ ELSE pv)

\* CodeArea(latitudeLo, longitudeLo, latitudeHi, longitudeHi, codeLength)
CodeArea(latitudeLo, longitudeLo, latitudeHi, longitudeHi, codeLength) ==
    [latitudeLo |-> latitudeLo, longitudeLo |-> longitudeLo,
     latitudeHi |-> latitudeHi, longitudeHi |-> longitudeHi,
     codeLength |-> codeLength,
     latitudeCenter |->
         Min(latitudeLo + (latitudeHi - latitudeLo) \div 2, LATITUDE_MAX_ * Degree),
     longitudeCenter |->
         Min(longitudeLo + (longitudeHi - longitudeLo) \div 2, LONGITUDE_MAX_ * Degree)]

\* olc.decode(code) of a full code of at most 10 digits (the requests of
\* the model hold no longer code).
olc_decode(code) ==
    LET stripped == Upper(Strip(code, {SEPARATOR_, PADDING_CHARACTER_}))
        digits == Min(Len(stripped), PAIR_CODE_LENGTH_)
        sw == DecodePairs(stripped, 0, digits,
                          -LATITUDE_MAX_ * PAIR_PRECISION_,
                          -LONGITUDE_MAX_ * PAIR_PRECISION_,
                          ENCODING_BASE_ * ENCODING_BASE_ * ENCODING_BASE_
                             * ENCODING_BASE_)
    IN  CodeArea(sw.lat * CellUnits, sw.lng * CellUnits,
                 (sw.lat + sw.pv) * CellUnits, (sw.lng + sw.pv) * CellUnits,
                 Len(stripped))

(***************************************************************************)
(* olc_helper.py.  A call returns [ok |-> TRUE, ...] or, when it raises,   *)
(* [ok |-> FALSE, err |-> the exception].                                  *)
(***************************************************************************)
Raise(err) == [ok |-> FALSE, err |-> err]

\* generate_olc(lat, lon) with no code_length
generate_olc(lat, lon) == olc_encode(lat, lon)

\* decode_olc(code): the dict of the decoded area; olc.decode raises
\* ValueError for a code that is not a valid full code.
decode_olc(code) ==
    IF ~olc_isFull(code) THEN Raise("ValueError")
    ELSE LET area == olc_decode(code)
         IN  [ok |-> TRUE,
              code |-> code,
              latitude_center |-> area.latitudeCenter,
              longitude_center |-> area.longitudeCenter,
              latitude_lo |-> area.latitudeLo,
              longitude_lo |-> area.longitudeLo,
              latitude_hi |-> area.latitudeHi,
              longitude_hi |-> area.longitudeHi,
              code_length |-> area.codeLength,
              region_code |-> None]

\* A table whose HRS box reaches down to latitude 2.0 and so shares the
\* edge at longitude 45.0 with the BNR box
RegionBoxesOverlapping ==
    << [code |-> <<"B","N","R">>, lat_min |-> E4(18000), lat_max |-> E4(22000),
        lon_min |-> E4(450000), lon_max |-> E4(456000)],
       [code |-> <<"H","R","S">>, lat_min |-> E4(20000), lat_max |-> E4(100000),
        lon_min |-> E4(430000), lon_max |-> E4(450000)],
       [code |-> <<"S","H","B">>, lat_min |-> E4(20000), lat_max |-> E4(30000),
        lon_min |-> E4(420000), lon_max |-> E4(430000)] >>

\* The bounding boxes of _get_region_from_coords, in the order of the dict.
RegionBoxes ==
    << [code |-> <<"B","N","R">>, lat_min |-> E4(18000), lat_max |-> E4(22000),
        lon_min |-> E4(450000), lon_max |-> E4(456000)],
       [code |-> <<"H","R","S">>, lat_min |-> E4(90000), lat_max |-> E4(100000),
        lon_min |-> E4(430000), lon_max |-> E4(450000)],
       [code |-> <<"S","H","B">>, lat_min |-> E4(20000), lat_max |-> E4(30000),
        lon_min |-> E4(420000), lon_max |-> E4(430000)] >>

\* A box test with the bounds excluded
InBoundsStrict(bounds, lat, lon) ==
    /\ bounds.lat_min < lat /\ lat < bounds.lat_max
    /\ bounds.lon_min < lon /\ lon < bounds.lon_max

\* The test of one box
InBounds(bounds, lat, lon) ==
    /\ bounds.lat_min <= lat /\ lat <= bounds.lat_max
    /\ bounds.lon_min <= lon /\ lon <= bounds.lon_max

\* The loop of _get_region_from_coords from entry k on
RECURSIVE RegionScan(_, _, _)
RegionScan(k, lat, lon) ==
    IF k > Len(RegionBoxes) THEN None
    ELSE IF InBounds(RegionBoxes[k], lat, lon) THEN RegionBoxes[k].code
         ELSE RegionScan(k + 1, lat, lon)

\* _get_region_from_coords(lat, lon)
get_region_from_coords(lat, lon) == RegionScan(1, lat, lon)

\* `if s is not None:` in place of `if s:`
TruthyNotNone(s) == s # None

\* `if s:` for an Optional[str]
Truthy(s) == s # None /\ s # <<>>

\* A composer that lets the inferred region replace a supplied prefix
PrefixInferredFirst(region_code, region, base_code) ==
    IF Truthy(region)
    THEN <<"S","O","M","-">> \o region \o <<":">> \o base_code
    ELSE IF Truthy(region_code) THEN region_code \o <<":">> \o base_code
         ELSE base_code

\* A composer that leaves out the ":" after a supplied prefix
PrefixNoSeparator(region_code, region, base_code) ==
    IF Truthy(region_code) THEN region_code \o base_code
    ELSE IF Truthy(region)
         THEN <<"S","O","M","-">> \o region \o <<":">> \o base_code
         ELSE base_code

\* The prefix rule of generate_somalia_olc; region is the located region,
\* which the code computes only when no region_code is supplied.
Prefix(region_code, region, base_code) ==
    IF Truthy(region_code) THEN region_code \o <<":">> \o base_code
    ELSE IF Truthy(region)
         THEN <<"S","O","M","-">> \o region \o <<":">> \o base_code
         ELSE base_code

\* generate_somalia_olc(lat, lon, region_code)
generate_somalia_olc(lat, lon, region_code) ==
    Prefix(region_code, get_region_from_coords(lat, lon), generate_olc(lat, lon))

\* code.rsplit(":", 1): the parts around the last ":"
RSplitOnce(code) ==
    [region_part |-> Slice(code, 0, RFind(code, ":")),
     olc_part |-> Slice(code, RFind(code, ":") + 1, Len(code))]

\* code.split(":", 1): the parts around the first ":"
SplitOnce(code) ==
    [region_part |-> Slice(code, 0, Find(code, ":")),
     olc_part |-> Slice(code, Find(code, ":") + 1, Len(code))]

\* A parse that returns the decoded dict without the region_code key
AttachNothing(result, region_part) == result

\* result["region_code"] = region_part, when decode_olc returned
AttachRegion(result, region_part) ==
    IF result.ok THEN [result EXCEPT !.region_code = region_part] ELSE result

\* decode_somalia_olc(code)
decode_somalia_olc(code) ==
    IF Find(code, ":") # -1
    THEN AttachRegion(decode_olc(SplitOnce(code).olc_part),
                      SplitOnce(code).region_part)
    ELSE decode_olc(code)

(***************************************************************************)
(* Requests.  A request arrives (Receive), then its handler runs to        *)
(* completion and leaves the response in ret.  Each request is handled in  *)
(* one step: a handler reads the dataset and writes nothing shared.        *)
(***************************************************************************)
NoCall == [op |-> "none"]
Idle == [status |-> "idle"]
Pending == [status |-> "pending"]

SearchRequests ==
    {[op |-> "search", name |-> name, limit |-> limit] :
        name \in Queries, limit \in 0..MaxLimit}

Receive(requests) ==
    /\ ret.status # "pending"
    /\ call' \in requests
    /\ ret' = Pending
    /\ UNCHANGED <<db, threads, districts, regions>>

\* GET /places/search?name&limit
SearchPlaces ==
    /\ ret.status = "pending"
    /\ call.op = "search"
    /\ ret' = [status |-> "ok"] @@ search_places(call.name, call.limit)
    /\ UNCHANGED <<db, threads, districts, regions, call>>

(***************************************************************************)
(* Requests to the location code helpers.                                  *)
(***************************************************************************)
\* Latitudes and longitudes on, inside and just outside every bound of the
\* region table, at the ends of the valid range and one degree beyond it.
Latitudes ==
    {-91 * Degree, -90 * Degree, E4(17999), E4(18000), E4(20469), E4(22000),
     E4(30000), E4(30001), E4(90000), E4(100000), 90 * Degree, 91 * Degree}

Longitudes ==
    {-181 * Degree, -180 * Degree, 0, E4(420000), E4(430000), E4(430001),
     E4(449999), E4(450000), E4(453182), E4(456000), E4(456001),
     E4(1799999), 180 * Degree, 181 * Degree}

InRange(lat, lon) ==
    /\ -90 * Degree <= lat /\ lat <= 90 * Degree
    /\ -180 * Degree <= lon /\ lon <= 180 * Degree

\* The region_code arguments: absent, empty, a region code, and a string
\* that itself holds a ":".
RegionCodes ==
    {None, <<>>, <<"S","O","M","-","H","R","S">>, <<"A",":","B">>}

ComposeRequests ==
    {[op |-> "compose", lat |-> lat, lon |-> lon, region_code |-> rc] :
        lat \in Latitudes, lon \in Longitudes, rc \in RegionCodes}

LocateRequests ==
    {[op |-> "locate", lat |-> lat, lon |-> lon] :
        lat \in Latitudes, lon \in Longitudes}

\* The code of the origin in the Gulf of Guinea: 6FG22222+22
BaseCode == <<"6","F","G","2","2","2","2","2","+","2","2">>

\* The code strings handed to parse, besides the codes compose returned.
Codes ==
    { BaseCode,
      Lower(BaseCode),
      <<"6","F","G","2","2","2","0","0","+">>,
      <<"6","F","G","2","2","2","2","2","+">>,
      <<"2","2","2","2","+","2","2">>,
      <<"8","F","J","5","3","P","M","+">>,
      <<"S","O","M","-","B","N","R">>,
      <<>>,
      <<":">>,
      <<"S","O","M","-","B","N","R",":">> \o BaseCode,
      <<"S","O","M","-","B","N","R",":">> \o <<"8","F","J","5","3","P","M","+">>,
      <<":">> \o BaseCode,
      BaseCode \o <<":">>,
      <<"A",":","B",":">> \o BaseCode,
      <<"A",":",":">> \o BaseCode,
      <<":",":">> \o BaseCode,
      <<"A",":">> \o BaseCode \o <<":">> \o BaseCode,
      BaseCode \o <<":",":">> }

\* parse of a listed code, or of the code the preceding compose returned
\* (of: that compose request).
ParseRequests ==
    {[op |-> "parse", code |-> c, of |-> NoCall] : c \in Codes}
    \cup (IF call.op = "compose" /\ ret.status = "ok"
          THEN {[op |-> "parse", code |-> ret.code, of |-> call]}
          ELSE {})

\* The response of a call that returned r or raised.
Response(r) ==
    IF r.ok THEN [status |-> "ok"] @@ r ELSE [status |-> "error"] @@ r

\* compose: generate_somalia_olc(lat, lon, region_code)
GenerateSomaliaOlc ==
    /\ ret.status = "pending"
    /\ call.op = "compose"
    /\ ret' = [status |-> "ok",
               code |-> generate_somalia_olc(call.lat, call.lon, call.region_code)]
    /\ UNCHANGED <<db, threads, districts, regions, call>>

\* parse: decode_somalia_olc(code)
DecodeSomaliaOlc ==
    /\ ret.status = "pending"
    /\ call.op = "parse"
    /\ ret' = Response(decode_somalia_olc(call.code))
    /\ UNCHANGED <<db, threads, districts, regions, call>>

\* locate: _get_region_from_coords(lat, lon)
GetRegionFromCoords ==
    /\ ret.status = "pending"
    /\ call.op = "locate"
    /\ ret' = [status |-> "ok",
               region |-> get_region_from_coords(call.lat, call.lon)]
    /\ UNCHANGED <<db, threads, districts, regions, call>>

(***************************************************************************)
(* The endpoints of location_codes.py.  A response carries the HTTP status *)
(* (http); a failure carries no LocationCodeResponse.                      *)
(***************************************************************************)
GenerateRequests ==
    {[op |-> "generate", lat |-> lat, lon |-> lon] :
        lat \in Latitudes, lon \in Longitudes}

\* resolve of a listed code, or of the code the preceding generate returned
\* (of: that generate request, gave: its response).
ResolveRequests ==
    {[op |-> "resolve", code |-> c, of |-> NoCall, gave |-> Idle] : c \in Codes}
    \cup (IF call.op = "generate" /\ ret.status = "ok"
          THEN {[op |-> "resolve", code |-> ret.code, of |-> call, gave |-> ret]}
          ELSE {})

\* The failure FastAPI returns when a Query(ge=, le=) parameter is out of
\* its range: the handler is not entered.
RequestValidationError == [status |-> "error", http |-> 422]

\* raise HTTPException(status_code=status_code)
HTTPException(status_code) == [status |-> "error", http |-> status_code]

\* A response built with the centre coordinates exchanged
LocationCodeResponseSwapped(code, decoded) ==
    [status |-> "ok", http |-> 200,
     code |-> code,
     latitude_center |-> decoded.longitude_center,
     longitude_center |-> decoded.latitude_center,
     region_code |-> decoded.region_code]

\* A response that reports the code as decode_olc returned it
LocationCodeResponseDecodedCode(code, decoded) ==
    [status |-> "ok", http |-> 200,
     code |-> decoded.code,
     latitude_center |-> decoded.latitude_center,
     longitude_center |-> decoded.longitude_center,
     region_code |-> decoded.region_code]

\* models.LocationCodeResponse(code=code, latitude_center=...,
\* longitude_center=..., region_code=decoded.get("region_code"))
LocationCodeResponse(code, decoded) ==
    [status |-> "ok", http |-> 200,
     code |-> code,
     latitude_center |-> decoded.latitude_center,
     longitude_center |-> decoded.longitude_center,
     region_code |-> decoded.region_code]

\* The body of generate_location_code(lat, lon)
generate_location_code(lat, lon) ==
    LET code == generate_somalia_olc(lat, lon, None)
        decoded == decode_somalia_olc(code)
    IN  IF decoded.ok THEN LocationCodeResponse(code, decoded)
        ELSE HTTPException(400)

\* The body of resolve_location_code(code)
resolve_location_code(code) ==
    LET decoded == decode_somalia_olc(code)
    IN  IF decoded.ok THEN LocationCodeResponse(code, decoded)
        ELSE HTTPException(400)

\* GET /locationcode/generate?lat&lon
GenerateLocationCode ==
    /\ ret.status = "pending"
    /\ call.op = "generate"
    /\ ret' = IF InRange(call.lat, call.lon)
              THEN generate_location_code(call.lat, call.lon)
              ELSE RequestValidationError
    /\ UNCHANGED <<db, threads, districts, regions, call>>

\* GET /locationcode/resolve?code
ResolveLocationCode ==
    /\ ret.status = "pending"
    /\ call.op = "resolve"
    /\ ret' = resolve_location_code(call.code)
    /\ UNCHANGED <<db, threads, districts, regions, call>>

(***************************************************************************)
(* Handlers run by several threads at once.  Each thread runs one call at  *)
(* a time, one statement group per step; its locals (loc) are its own; the *)
(* tables are read and never written.  overlapped records that another     *)
(* thread took a step while the call was running.                          *)
(***************************************************************************)
Threads == 1..MaxThreads

IdleThread ==
    [pc |-> "idle", req |-> NoCall, loc |-> <<>>, result |-> Idle,
     overlapped |-> FALSE]

Running(q) == threads[q].pc \notin {"idle", "done"}

\* The calls the threads make.
ConcurrentRequests ==
    {[op |-> "search", name |-> <<>>, limit |-> 3],
     [op |-> "search", name |-> <<"B","E","L">>, limit |-> 2],
     [op |-> "search", name |-> <<"h","i","i">>, limit |-> 1],
     [op |-> "compose", lat |-> E4(20469), lon |-> E4(453182),
      region_code |-> None],
     [op |-> "compose", lat |-> E4(90000), lon |-> E4(450000),
      region_code |-> <<"S","O","M","-","H","R","S">>],
     [op |-> "parse", code |-> <<"S","O","M","-","B","N","R",":">> \o BaseCode],
     [op |-> "parse", code |-> <<"A",":","B",":">> \o BaseCode]}

\* Thread p moves to state next while the other threads stand still.
Step(p, next) ==
    /\ threads' =
          [q \in Threads |->
              IF q = p
              THEN [next EXCEPT !.overlapped =
                                   @ \/ \E o \in Threads \ {p} : Running(o)]
              ELSE IF Running(q)
                   THEN [threads[q] EXCEPT !.overlapped = TRUE]
                   ELSE threads[q]]
    /\ UNCHANGED <<db, districts, regions, call, ret>>

\* A seen_ids set that all running searches share
SeenIdsShared(p) ==
    UNION {threads[q].loc.seen_ids :
              q \in {o \in Threads : /\ Running(o)
                                     /\ threads[o].req.op = "search"
                                     /\ threads[o].pc # "called"}}

\* seen_ids = set(): a local of the call
SeenIds(p) == threads[p].loc.seen_ids

\* A thread takes a request.
BeginCall(p) ==
    /\ threads[p].pc = "idle"
    /\ \E req \in ConcurrentRequests :
          Step(p, [IdleThread EXCEPT !.pc = "called", !.req = req])

\* results = [], seen_ids = set(), and the district query
QueryDistricts(p) ==
    LET t == threads[p]
        name_lower == Lower(t.req.name)
        fetched == FetchDistricts(name_lower, t.req.limit)
    IN  /\ t.pc = "called"
        /\ t.req.op = "search"
        /\ Step(p, [t EXCEPT
                      !.pc = IF fetched = <<>> THEN "region_query"
                             ELSE "district_loop",
                      !.loc = [name_lower |-> name_lower, fetched |-> fetched,
                               results |-> <<>>, seen_ids |-> {}]])

\* One iteration of the loop over the fetched districts
DistrictStep(p) ==
    LET t == threads[p]
        i == Head(t.loc.fetched)
        emits == DistrictEmits(districts[i], t.loc.name_lower, SeenIds(p))
        results == IF emits THEN AppendResult(t.loc.results, DistrictResult(i))
                   ELSE t.loc.results
        seen_ids == IF emits THEN SeenIds(p) \cup {DistrictId(districts[i])}
                    ELSE t.loc.seen_ids
        break == emits /\ Len(results) >= t.req.limit
    IN  /\ t.pc = "district_loop"
        /\ Step(p, [t EXCEPT
                      !.pc = IF break \/ Tail(t.loc.fetched) = <<>>
                             THEN "region_query" ELSE "district_loop",
                      !.loc = [t.loc EXCEPT !.fetched = Tail(t.loc.fetched),
                                            !.results = results,
                                            !.seen_ids = seen_ids]])

\* if len(results) < limit: the region query
QueryRegions(p) ==
    LET t == threads[p]
        n == Len(t.loc.results)
        fetched == IF n < t.req.limit
                   THEN FetchRegions(t.loc.name_lower,
                                     RegionFetchLimit(t.req.limit, n))
                   ELSE <<>>
    IN  /\ t.pc = "region_query"
        /\ Step(p, [t EXCEPT
                      !.pc = IF fetched = <<>> THEN "return" ELSE "region_loop",
                      !.loc = [t.loc EXCEPT !.fetched = fetched]])

\* One iteration of the loop over the fetched regions
RegionStep(p) ==
    LET t == threads[p]
        i == Head(t.loc.fetched)
        emits == RegionEmits(regions[i], SeenIds(p))
        results == IF emits THEN AppendResult(t.loc.results, RegionResult(i))
                   ELSE t.loc.results
        seen_ids == IF emits THEN SeenIds(p) \cup {regions[i].code}
                    ELSE t.loc.seen_ids
    IN  /\ t.pc = "region_loop"
        /\ Step(p, [t EXCEPT
                      !.pc = IF Tail(t.loc.fetched) = <<>>
                             THEN "return" ELSE "region_loop",
                      !.loc = [t.loc EXCEPT !.fetched = Tail(t.loc.fetched),
                                            !.results = results,
                                            !.seen_ids = seen_ids]])

\* return PlacesSearchResponse(data=results, count=len(results))
ReturnSearch(p) ==
    LET t == threads[p]
    IN  /\ t.pc = "return"
        /\ Step(p, [t EXCEPT
                      !.pc = "done",
                      !.result = [status |-> "ok", data |-> t.loc.results,
                                  count |-> Len(t.loc.results)]])

\* base_code = generate_olc(lat, lon)
ComposeEncode(p) ==
    LET t == threads[p]
    IN  /\ t.pc = "called"
        /\ t.req.op = "compose"
        /\ Step(p, [t EXCEPT
                      !.pc = "prefix",
                      !.loc = [base_code |-> generate_olc(t.req.lat, t.req.lon)]])

\* The prefix and the return of generate_somalia_olc
ComposeReturn(p) ==
    LET t == threads[p]
    IN  /\ t.pc = "prefix"
        /\ Step(p, [t EXCEPT
                      !.pc = "done",
                      !.result =
                          [status |-> "ok",
                           code |-> Prefix(t.req.region_code,
                                           get_region_from_coords(t.req.lat,
                                                                  t.req.lon),
                                           t.loc.base_code)]])

\* if ":" in code: region_part, olc_part = code.split(":", 1)
ParseSplit(p) ==
    LET t == threads[p]
        code == t.req.code
    IN  /\ t.pc = "called"
        /\ t.req.op = "parse"
        /\ Step(p, [t EXCEPT
                      !.pc = "decode",
                      !.loc = IF Find(code, ":") # -1
                              THEN [prefixed |-> TRUE] @@ SplitOnce(code)
                              ELSE [prefixed |-> FALSE, region_part |-> None,
                                    olc_part |-> code]])

\* decode_olc of the OLC part and the return of decode_somalia_olc
ParseReturn(p) ==
    LET t == threads[p]
        result == decode_olc(t.loc.olc_part)
    IN  /\ t.pc = "decode"
        /\ Step(p, [t EXCEPT
                      !.pc = "done",
                      !.result =
                          Response(IF t.loc.prefixed
                                   THEN AttachRegion(result, t.loc.region_part)
                                   ELSE result)])

\* The response is sent and the thread is free again.
Respond(p) ==
    /\ threads[p].pc = "done"
    /\ Step(p, IdleThread)

(***************************************************************************)
(* The Road and Airport tables (models.py) and the database behind the     *)
(* session db.  The engine (app.core.db) is configured outside these       *)
(* sources, so its dialect is any of those below.  The id of a road is its *)
(* position in the table.                                                  *)
(***************************************************************************)
Dialects == {"postgresql", "sqlite"}

MogRoad ==
    [name |-> <<"M","o","g"," ","R","d">>, type |-> <<"p","r","i","m","a","r","y">>]

AfgRoad ==
    [name |-> <<"A","f","g"," ","R","d">>,
     type |-> <<"s","e","c","o","n","d","a","r","y">>]

\* A road whose type the loader did not map.
MogTrack ==
    [name |-> <<"m","o","g"," ","p","a","t","h">>,
     type |-> <<"P","r","i","m","a","r","y">>]

RoadPool == {MogRoad, AfgRoad, MogTrack}

International == <<"i","n","t","e","r","n","a","t","i","o","n","a","l">>
Domestic == <<"d","o","m","e","s","t","i","c">>

\* Coordinates of airports are integers in units of 1/100000 degree.
Aden ==
    [name |-> <<"A","d","e","n"," ","A","d","d","e">>,
     iata_code |-> <<"M","G","Q">>, icao_code |-> <<"H","C","M","M">>,
     type |-> International, latitude |-> 201440, longitude |-> 4530470]

\* The same place without codes, a little off.
AdenStrip ==
    [name |-> <<"M","o","g"," ","s","t","r","i","p">>,
     iata_code |-> None, icao_code |-> <<>>,
     type |-> Domestic, latitude |-> 201441, longitude |-> 4530468]

\* Jijiga, Ethiopia: inside the Somalia box, known by its ICAO code.
Jijiga ==
    [name |-> <<"J","i","j","i","g","a">>,
     iata_code |-> None, icao_code |-> <<"H","A","J","J">>,
     type |-> Domestic, latitude |-> 933250, longitude |-> 4291210]

\* Djibouti: north of the box, and at the place of DjiboutiField.
Djibouti ==
    [name |-> <<"D","j","i","b","o","u","t","i">>,
     iata_code |-> <<"J","I","B">>, icao_code |-> None,
     type |-> International, latitude |-> 1154730, longitude |-> 4315950]

DjiboutiField ==
    [name |-> <<"F","i","e","l","d">>,
     iata_code |-> None, icao_code |-> None,
     type |-> <<"a","i","r","s","t","r","i","p">>,
     latitude |-> 1154730, longitude |-> 4315950]

\* Just north of latitude 11.5, by less than half of 1/10000 degree.
Caluula ==
    [name |-> <<"C","a","l","u","u","l","a">>,
     iata_code |-> None, icao_code |-> None,
     type |-> Domestic, latitude |-> 1150004, longitude |-> 4500000]

\* On the corner of the box.
Corner ==
    [name |-> <<"C","o","r","n","e","r">>,
     iata_code |-> <<>>, icao_code |-> None,
     type |-> Domestic, latitude |-> 150000, longitude |-> 4100000]

AirportPool == {Aden, AdenStrip, Jijiga, Djibouti, DjiboutiField, Caluula, Corner}

\* A table with the primary keys 1, 2, ... in the order of insertion.
WithIds(rows) == [i \in 1..Len(rows) |-> [id |-> i] @@ rows[i]]

\* The transport tables of the specifications that do not read them.
NoTransport == [dialect |-> "postgresql", roads |-> <<>>, airports |-> <<>>]

(***************************************************************************)
(* The list endpoints: districts.py, regions.py, roads.py, transport.py.   *)
(* A response carries the number of queries the handler executed.          *)
(***************************************************************************)
\* query.offset(skip).limit(limit) executed on the matching rows.  A
\* negative LIMIT or OFFSET is an error in PostgreSQL; in SQLite a negative
\* LIMIT is no limit and a negative OFFSET is no offset.
Paginate(rows, skip, limit) ==
    IF skip >= 0 /\ limit >= 0
    THEN [ok |-> TRUE, rows |-> SubSeq(rows, skip + 1, Min(Len(rows), skip + limit))]
    ELSE IF db.dialect = "postgresql" THEN Raise("DataError")
         ELSE [ok |-> TRUE,
               rows |-> SubSeq(rows,
                               (IF skip < 0 THEN 0 ELSE skip) + 1,
                               IF limit < 0 THEN Len(rows)
                               ELSE Min(Len(rows),
                                        (IF skip < 0 THEN 0 ELSE skip) + limit))]

\* total_count = db.exec(count_query).one()
TotalCount(matching, page) == Len(matching)

\* The count query, the page query and the response {data, count}; an
\* error of the database is not caught and ends in HTTP 500.
ListResponse(matching, skip, limit) ==
    LET page == Paginate(matching, skip, limit)
    IN  IF page.ok
        THEN [status |-> "ok", http |-> 200, queries |-> 2,
              data |-> page.rows, count |-> TotalCount(matching, page.rows)]
        ELSE [status |-> "error", http |-> 500, queries |-> 2]

\* raise HTTPException(status_code=400) before any query is executed
InvalidType == [queries |-> 0] @@ HTTPException(400)

\* read_districts(skip, limit, region)
read_districts(skip, limit, region) ==
    ListResponse(SelectSeq(districts,
                           LAMBDA d : Truthy(region) => d.region_name = region),
                 skip, limit)

\* read_regions(skip, limit)
read_regions(skip, limit) == ListResponse(regions, skip, limit)

\* column.contains(q): column LIKE '%' || q || '%', which ignores the case
\* of ASCII letters in SQLite and not in PostgreSQL.
ColumnContains(column, q) ==
    IF db.dialect = "sqlite"
    THEN Like(Lower(column), <<"%">> \o Lower(q) \o <<"%">>)
    ELSE Like(column, <<"%">> \o q \o <<"%">>)

\* A type filter that compares the type as it was sent
TypeAsSent(type) == type

\* type.lower(), the value the type column is compared with
TypeFilter(type) == Lower(type)

\* The where clauses of read_roads
RoadMatches(road, district, type) ==
    /\ Truthy(district) => ColumnContains(road.name, district)
    /\ Truthy(type) => road.type = TypeFilter(type)

\* read_roads(skip, limit, district, type)
read_roads(skip, limit, district, type) ==
    IF /\ Truthy(type)
       /\ Lower(type) \notin {<<"p","r","i","m","a","r","y">>,
                              <<"s","e","c","o","n","d","a","r","y">>}
    THEN InvalidType
    ELSE ListResponse(SelectSeq(db.roads,
                                LAMBDA r : RoadMatches(r, district, type)),
                      skip, limit)

\* read_airports(skip, limit, type)
read_airports(skip, limit, type) ==
    IF Truthy(type) /\ Lower(type) \notin {International, Domestic}
    THEN InvalidType
    ELSE ListResponse(SelectSeq(db.airports,
                                LAMBDA a : Truthy(type) => a.type = TypeFilter(type)),
                      skip, limit)

Skips == -1..MaxSkip

Limits == -1..MaxPage

ListRequests ==
    {[op |-> "read_districts", skip |-> skip, limit |-> limit, region |-> region] :
        skip \in Skips, limit \in Limits,
        region \in {None, <<>>, <<"B","a","n","a","d","i","r">>}}
    \cup {[op |-> "read_regions", skip |-> skip, limit |-> limit] :
             skip \in Skips, limit \in Limits}
    \cup {[op |-> "read_roads", skip |-> skip, limit |-> limit,
           district |-> district, type |-> type] :
             skip \in Skips, limit \in Limits,
             district \in {None, <<"M","o","g">>},
             type \in {None, <<>>, <<"p","r","i","m","a","r","y">>,
                       <<"P","r","i","m","a","r","y">>,
                       <<"t","e","r","t","i","a","r","y">>}}
    \cup {[op |-> "read_airports", skip |-> skip, limit |-> limit, type |-> type] :
             skip \in Skips, limit \in Limits,
             type \in {None, International,
                       <<"D","o","m","e","s","t","i","c">>,
                       <<"a","i","r","s","t","r","i","p">>}}

\* GET /districts/?skip&limit&region
ReadDistricts ==
    /\ ret.status = "pending"
    /\ call.op = "read_districts"
    /\ ret' = read_districts(call.skip, call.limit, call.region)
    /\ UNCHANGED <<db, threads, districts, regions, call>>

\* GET /regions/?skip&limit
ReadRegions ==
    /\ ret.status = "pending"
    /\ call.op = "read_regions"
    /\ ret' = read_regions(call.skip, call.limit)
    /\ UNCHANGED <<db, threads, districts, regions, call>>

\* GET /roads/?skip&limit&district&type
ReadRoads ==
    /\ ret.status = "pending"
    /\ call.op = "read_roads"
    /\ ret' = read_roads(call.skip, call.limit, call.district, call.type)
    /\ UNCHANGED <<db, threads, districts, regions, call>>

\* GET /transport/airports?skip&limit&type
ReadAirports ==
    /\ ret.status = "pending"
    /\ call.op = "read_airports"
    /\ ret' = read_airports(call.skip, call.limit, call.type)
    /\ UNCHANGED <<db, threads, districts, regions, call>>

(***************************************************************************)
(* scripts/clean_airports.py.                                              *)
(***************************************************************************)
SOMALIA_LAT_MIN == 150000
SOMALIA_LAT_MAX == 1150000
SOMALIA_LON_MIN == 4100000
SOMALIA_LON_MAX == 5150000

DJIBOUTI_CODES ==
    {<<"A","I","I">>, <<"H","D","A","S">>, <<"O","B","C">>,
     <<"H","D","O","B">>, <<"J","I","B">>, <<"H","D","A","M">>,
     <<"T","D","J">>, <<"H","D","T","J">>, <<"M","H","I">>,
     <<"H","D","M","O">>, <<"H","D","D","K">>, <<"H","D","Y","O">>,
     <<"H","D","H","C">>, <<"Z","0","9","C">>, <<"H","D","M","O">>}

ETHIOPIA_CODES ==
    {<<"J","I","J">>, <<"H","A","J","J">>, <<"D","I","R">>,
     <<"H","A","D","R">>, <<"A","B","K">>, <<"H","A","K","D">>,
     <<"H","I","L">>, <<"H","A","S","L">>, <<"G","D","E">>,
     <<"H","A","G","O">>, <<"H","D","A","E">>}

KENYA_CODES ==
    {<<"N","D","E">>, <<"H","K","M","A">>}

\* round(x, 4) of a coordinate x >= 0 whose fifth decimal is not 5
Round4(x) == ((x + 5) \div 10) * 10

\* key = (round(airport.latitude, 4), round(airport.longitude, 4))
CoordKey(airport) == <<Round4(airport.latitude), Round4(airport.longitude)>>

\* is_in_somalia_strict(lat, lon)
is_in_somalia_strict(lat, lon) ==
    /\ SOMALIA_LAT_MIN <= lat /\ lat <= SOMALIA_LAT_MAX
    /\ SOMALIA_LON_MIN <= lon /\ lon <= SOMALIA_LON_MAX

\* is_neighboring_country_airport(airport)
is_neighboring_country_airport(airport) ==
    \/ /\ Truthy(airport.iata_code)
       /\ airport.iata_code \in DJIBOUTI_CODES \cup ETHIOPIA_CODES \cup KENYA_CODES
    \/ /\ Truthy(airport.icao_code)
       /\ airport.icao_code \in DJIBOUTI_CODES \cup ETHIOPIA_CODES \cup KENYA_CODES

\* coord_groups[key]: the airports of one rounded location, in table order
CoordGroup(all_airports, key) ==
    SelectSeq(all_airports, LAMBDA a : CoordKey(a) = key)

\* The first airport of the group with an IATA or ICAO code, or the first
AirportToKeep(airports_group) ==
    LET coded == {i \in 1..Len(airports_group) :
                     \/ Truthy(airports_group[i].iata_code)
                     \/ Truthy(airports_group[i].icao_code)}
    IN  IF coded = {} THEN airports_group[1]
        ELSE airports_group[CHOOSE i \in coded : \A j \in coded : i <= j]

\* Whether the airport kept for a location stays in the table: the code
\* test, then the box test on the rounded coordinates (lat, lon = coord).
StaysInTable(airport_to_keep, coord) ==
    /\ ~is_neighboring_country_airport(airport_to_keep)
    /\ is_in_somalia_strict(coord[1], coord[2])

\* The ids of airports_to_keep
KeptIds(all_airports) ==
    {AirportToKeep(CoordGroup(all_airports, CoordKey(all_airports[i]))).id :
        i \in {j \in 1..Len(all_airports) :
                 LET key == CoordKey(all_airports[j])
                 IN  StaysInTable(AirportToKeep(CoordGroup(all_airports, key)),
                                  key)}}

\* verify_airports(): all_valid
verify_airports(airports) ==
    \A i \in 1..Len(airports) :
        /\ ~is_neighboring_country_airport(airports[i])
        /\ is_in_somalia_strict(airports[i].latitude, airports[i].longitude)

ScriptRequests == {[op |-> "clean_airports"], [op |-> "verify_airports"]}

\* clean_airports(): every airport not kept is deleted, then db.commit()
CleanAirports ==
    /\ ret.status = "pending"
    /\ call.op = "clean_airports"
    /\ db' = [db EXCEPT !.airports =
                 SelectSeq(db.airports, LAMBDA a : a.id \in KeptIds(db.airports))]
    /\ ret' = [status |-> "ok",
               remaining |-> Cardinality(KeptIds(db.airports))]
    /\ UNCHANGED <<threads, districts, regions, call>>

\* verify_airports()
VerifyAirports ==
    /\ ret.status = "pending"
    /\ call.op = "verify_airports"
    /\ ret' = [status |-> "ok", all_valid |-> verify_airports(db.airports)]
    /\ UNCHANGED <<db, threads, districts, regions, call>>

(***************************************************************************)
(* scripts/load_geodata.py: load_regions and load_districts.  A feature is *)
(* its properties, a function from the keys present to their values; a     *)
(* file is its sequence of features.  The loaded rows carry the columns id, *)
(* name, code, population and, for a district, region_name, region_id and  *)
(* aliases; the geometry and the centroid computed from it are carried     *)
(* through and are left out.                                               *)
(***************************************************************************)
\* Features of a regions file.
RegionFeatures ==
    { [name |-> <<"B","a","n","a","d","i","r">>, code |-> <<"S","O","M","-","B","N","R">>, population |-> <<"5">>],
      [NAME_1 |-> <<"b","a","y">>],
      [name |-> <<"B","a","y">>],
      [name |-> <<>>, NAME_1 |-> <<"B","a","r","i">>],
      [admin1Name |-> <<"B","a">>, population |-> <<"n","/","a">>] }

\* Features of a districts file.
DistrictFeatures ==
    { [name |-> <<"H","o","d","a","n">>, region |-> <<"B","a","n","a","d","i","r">>, aliases |-> <<"H","o","d","o","n">>],
      [NAME_2 |-> <<"B","a","i","d","o","a">>, NAME_1 |-> <<"B","a","y">>],
      [name |-> <<"J","o","w","h","a","r">>, region |-> <<"S","h","a","b","e","l","l","e">>, code |-> <<>>],
      [name |-> <<>>, NAME_2 |-> <<"L","u","u","q">>, region |-> <<"G","e","d","o">>],
      [name |-> <<"X","u","d","u","r">>, region |-> None],
      [district |-> <<"A","b">>, REGION |-> <<"G","a">>, population |-> <<"n","/","a">>] }

\* normalize_field(props, field_variations, default)
RECURSIVE normalize_field(_, _, _)
normalize_field(props, field_variations, default) ==
    IF field_variations = <<>> THEN default
    ELSE IF Head(field_variations) \in DOMAIN props
         THEN props[Head(field_variations)]
         ELSE normalize_field(props, Tail(field_variations), default)

PopulationFields == <<"population", "Population", "POPULATION", "pop", "Pop">>

RegionNameFields ==
    <<"name", "NAME_1", "VARNAME_1", "admin1Name", "ADMIN1",
      "region", "Region", "REGION">>

RegionCodeFields == <<"code", "CODE", "admin1Pcode", "pcode", "PCODE">>

DistrictNameFields ==
    <<"name", "NAME_2", "VARNAME_2", "admin2Name", "ADMIN2",
      "district", "District", "DISTRICT">>

DistrictRegionFields ==
    <<"region", "Region", "REGION", "NAME_1", "admin1Name", "ADMIN1">>

DistrictCodeFields == <<"code", "CODE", "admin2Pcode", "pcode", "PCODE">>

\* int(s) raises ValueError unless s is a run of digits.
IsInt(s) ==
    /\ s # <<>>
    /\ \A i \in 1..Len(s) :
          s[i] \in {"0", "1", "2", "3", "4", "5", "6", "7", "8", "9"}

\* f"SOM-{name[:3].upper()}" if len(name) >= 3 else f"SOM-{name.upper()}"
RegionCodeOf(name) ==
    IF Len(name) >= 3 THEN <<"S","O","M","-">> \o Upper(Take(name, 3))
    ELSE <<"S","O","M","-">> \o Upper(name)

\* The code generated for a district without one
DistrictCodeOf(region_name, name) ==
    IF Len(name) >= 3
    THEN <<"S","O","M","-">> \o Upper(Take(region_name, 3)) \o <<"-">>
         \o Upper(Take(name, 3))
    ELSE <<"S","O","M","-">> \o Upper(Take(region_name, 3)) \o <<"-">>
         \o Upper(name)

\* The row a region feature is loaded as; skip when it has no name, raise
\* when int(population) does.
RegionOf(props) ==
    LET name == normalize_field(props, RegionNameFields, None)
        given == normalize_field(props, RegionCodeFields, None)
        code == IF ~Truthy(given) /\ Truthy(name) THEN RegionCodeOf(name) ELSE given
        population == normalize_field(props, PopulationFields, None)
    IN  IF ~Truthy(name) THEN [skip |-> TRUE, raises |-> FALSE]
        ELSE IF Truthy(population) /\ ~IsInt(population)
             THEN [skip |-> FALSE, raises |-> TRUE]
             ELSE [skip |-> FALSE, raises |-> FALSE,
                   row |-> [name |-> name, code |-> code,
                            population |-> IF Truthy(population)
                                           THEN population ELSE None]]

\* db.add(row): the row gets the next primary key.
Add(table, row) == Append(table, [id |-> Len(table) + 1] @@ row)

\* The loop of load_regions over the features; acc.ok is FALSE once a
\* feature has raised.
RECURSIVE LoadRegionFeatures(_, _)
LoadRegionFeatures(features, acc) ==
    IF features = <<>> \/ ~acc.ok THEN acc
    ELSE LET r == RegionOf(Head(features))
         IN  LoadRegionFeatures(
                Tail(features),
                IF r.raises THEN [acc EXCEPT !.ok = FALSE]
                ELSE IF r.skip THEN acc
                     ELSE [acc EXCEPT !.regions = Add(@, r.row)])

\* A lookup that takes the first region of the table, whatever its name
FirstRegion(table, region_name) ==
    IF table = <<>> THEN 0 ELSE 1

\* The region a district is attached to: the first whose name is
\* region_name, else the first whose lower(name) is region_name.lower();
\* 0 when there is none.
FindRegion(table, region_name) ==
    LET exact == {i \in 1..Len(table) : table[i].name = region_name}
        folded == {i \in 1..Len(table) : Lower(table[i].name) = Lower(region_name)}
    IN  IF exact # {} THEN CHOOSE i \in exact : \A j \in exact : i <= j
        ELSE IF folded # {} THEN CHOOSE i \in folded : \A j \in folded : i <= j
             ELSE 0

\* aliases = props.get('aliases', []); a string stands for a list of itself
AliasesOf(props) ==
    IF "aliases" \in DOMAIN props /\ props["aliases"] # <<>>
    THEN <<props["aliases"]>>
    ELSE <<>>

\* One iteration of the loop of load_districts.
LoadDistrictFeature(props, acc) ==
    LET name == normalize_field(props, DistrictNameFields, None)
        region_name == normalize_field(props, DistrictRegionFields, None)
        given == normalize_field(props, DistrictCodeFields, None)
        code == IF ~Truthy(given) /\ Truthy(name) /\ Truthy(region_name)
                THEN DistrictCodeOf(region_name, name) ELSE given
        population == normalize_field(props, PopulationFields, None)
        found == FindRegion(acc.regions, region_name)
        with_region ==
            IF found # 0 THEN acc.regions
            ELSE Add(acc.regions,
                     [name |-> region_name, code |-> RegionCodeOf(region_name),
                      population |-> None])
        region == IF found # 0 THEN acc.regions[found]
                  ELSE with_region[Len(with_region)]
    IN  IF ~Truthy(name) \/ ~Truthy(region_name) THEN acc
        ELSE IF Truthy(population) /\ ~IsInt(population)
             THEN [acc EXCEPT !.ok = FALSE]
             ELSE [acc EXCEPT
                     !.regions = with_region,
                     !.districts =
                         Add(@, [name |-> name, code |-> code,
                                 region_name |-> region_name,
                                 population |-> IF Truthy(population)
                                                THEN population ELSE None,
                                 aliases |-> AliasesOf(props),
                                 region_id |-> region.id])]

RECURSIVE LoadDistrictFeatures(_, _)
LoadDistrictFeatures(features, acc) ==
    IF features = <<>> \/ ~acc.ok THEN acc
    ELSE LoadDistrictFeatures(Tail(features),
                              LoadDistrictFeature(Head(features), acc))

\* The files main() loads: regions first, then districts (of: the load of
\* the regions file that went before).
LoaderRequests ==
    IF call.op = "none"
    THEN {[op |-> "load_regions", features |-> features] :
             features \in Tables(RegionFeatures, MaxFeatures)}
    ELSE IF call.op = "load_regions" /\ ret.status = "ok"
         THEN {[op |-> "load_districts", features |-> features, of |-> call] :
                  features \in Tables(DistrictFeatures, MaxFeatures)}
         ELSE {}

\* load_regions(db, data_file); without db.commit() nothing is stored.
LoadRegions ==
    /\ ret.status = "pending"
    /\ call.op = "load_regions"
    /\ LET done == LoadRegionFeatures(call.features,
                                      [ok |-> TRUE, regions |-> regions])
       IN  /\ regions' = IF done.ok THEN done.regions ELSE regions
           /\ ret' = IF done.ok THEN [status |-> "ok"] ELSE [status |-> "error"]
    /\ UNCHANGED <<db, threads, districts, call>>

\* load_districts(db, data_file)
LoadDistricts ==
    /\ ret.status = "pending"
    /\ call.op = "load_districts"
    /\ LET done == LoadDistrictFeatures(call.features,
                                        [ok |-> TRUE, regions |-> regions,
                                         districts |-> districts])
       IN  /\ regions' = IF done.ok THEN done.regions ELSE regions
           /\ districts' = IF done.ok THEN done.districts ELSE districts
           /\ ret' = IF done.ok THEN [status |-> "ok"] ELSE [status |-> "error"]
    /\ UNCHANGED <<db, threads, call>>

(***************************************************************************)
(* Specifications.                                                         *)
(***************************************************************************)
Init ==
    /\ districts \in Tables(DistrictPool, MaxDistricts)
    /\ regions \in Tables(RegionPool, MaxRegions)
    /\ call = NoCall
    /\ ret = Idle
    /\ threads = [p \in Threads |-> IdleThread]
    /\ db = NoTransport

NextConcurrent ==
    \E p \in Threads :
        \/ BeginCall(p)
        \/ QueryDistricts(p)
        \/ DistrictStep(p)
        \/ QueryRegions(p)
        \/ RegionStep(p)
        \/ ReturnSearch(p)
        \/ ComposeEncode(p)
        \/ ComposeReturn(p)
        \/ ParseSplit(p)
        \/ ParseReturn(p)
        \/ Respond(p)

Next ==
    \/ Receive(SearchRequests)
    \/ Receive(ComposeRequests \cup ParseRequests \cup LocateRequests)
    \/ Receive(GenerateRequests \cup ResolveRequests)
    \/ SearchPlaces
    \/ GenerateSomaliaOlc
    \/ DecodeSomaliaOlc
    \/ GetRegionFromCoords
    \/ GenerateLocationCode
    \/ ResolveLocationCode
    \/ NextConcurrent
    \/ Receive(ListRequests)
    \/ ReadDistricts
    \/ ReadRegions
    \/ ReadRoads
    \/ ReadAirports
    \/ Receive(ScriptRequests)
    \/ CleanAirports
    \/ VerifyAirports
    \/ Receive(LoaderRequests)
    \/ LoadRegions
    \/ LoadDistricts

\* The whole service.
Spec == Init /\ [][Next]_vars

NextSearch ==
    \/ Receive(SearchRequests)
    \/ SearchPlaces

\* The search handler over every dataset.
SpecSearch == Init /\ [][NextSearch]_vars

\* The location code helpers read no table: one dataset stands for all.
InitCodec ==
    /\ districts = <<Mogadishu>>
    /\ regions = <<Banadir>>
    /\ call = NoCall
    /\ ret = Idle
    /\ threads = [p \in Threads |-> IdleThread]
    /\ db = NoTransport

NextCodec ==
    \/ Receive(ComposeRequests \cup ParseRequests \cup LocateRequests)
    \/ GenerateSomaliaOlc
    \/ DecodeSomaliaOlc
    \/ GetRegionFromCoords

\* The location code helpers over every request.
SpecCodec == InitCodec /\ [][NextCodec]_vars

NextEndpoints ==
    \/ Receive(GenerateRequests \cup ResolveRequests)
    \/ GenerateLocationCode
    \/ ResolveLocationCode

\* The location code endpoints over every request.
SpecEndpoints == InitCodec /\ [][NextEndpoints]_vars

\* A dataset with two districts of one id, read by all threads.
InitConcurrent ==
    /\ districts \in {<<Beledweyne, BeletXaawo, Mogadishu>>,
                      <<Mogadishu, BeletXaawo, Beledweyne>>}
    /\ regions = <<Hiiraan, Banadir>>
    /\ call = NoCall
    /\ ret = Idle
    /\ threads = [p \in Threads |-> IdleThread]
    /\ db = NoTransport

\* The handlers interleaved statement by statement.
SpecConcurrent == InitConcurrent /\ [][NextConcurrent]_vars

\* The tables behind the list endpoints, under either dialect.
InitLists ==
    /\ districts = <<Mogadishu, Beledweyne, BanadirTown>>
    /\ regions = <<Banadir, Hiiraan>>
    /\ call = NoCall
    /\ ret = Idle
    /\ threads = [p \in Threads |-> IdleThread]
    /\ \E dialect \in Dialects, roads \in [1..MaxRoads -> RoadPool] :
          db = [dialect |-> dialect, roads |-> roads,
                airports |-> WithIds(<<Aden, AdenStrip, DjiboutiField>>)]

NextLists ==
    \/ Receive(ListRequests)
    \/ ReadDistricts
    \/ ReadRegions
    \/ ReadRoads
    \/ ReadAirports

\* The list endpoints over every request.
SpecLists == InitLists /\ [][NextLists]_vars

\* Any Airport table, as the loader may have left it.
InitAirports ==
    /\ districts = <<>>
    /\ regions = <<>>
    /\ call = NoCall
    /\ ret = Idle
    /\ threads = [p \in Threads |-> IdleThread]
    /\ \E dialect \in Dialects, airports \in Tables(AirportPool, MaxAirports) :
          db = [dialect |-> dialect, roads |-> <<>>, airports |-> WithIds(airports)]

NextAirports ==
    \/ Receive(ScriptRequests)
    \/ CleanAirports
    \/ VerifyAirports

\* The airport cleaning script over every table.
SpecAirports == InitAirports /\ [][NextAirports]_vars

\* The empty database that main() of the loader creates.
InitLoader ==
    /\ districts = <<>>
    /\ regions = <<>>
    /\ call = NoCall
    /\ ret = Idle
    /\ threads = [p \in Threads |-> IdleThread]
    /\ db = NoTransport

NextLoader ==
    \/ Receive(LoaderRequests)
    \/ LoadRegions
    \/ LoadDistricts

\* The loader over every pair of files.
SpecLoader == InitLoader /\ [][NextLoader]_vars

\* Datasets that hold more matching districts than the district query
\* fetches: five rows, some of them computing the same id.
InitOverfetch ==
    /\ districts \in [1..OverfetchRows -> {Beledweyne, BeletXaawo, Mogadishu}]
    /\ regions \in {<<>>, <<Hiiraan>>}
    /\ call = NoCall
    /\ ret = Idle
    /\ threads = [p \in Threads |-> IdleThread]
    /\ db = NoTransport

OverfetchRequests ==
    {[op |-> "search", name |-> name, limit |-> limit] :
        name \in {<<>>, <<"B","E","L">>}, limit \in 1..2}

NextOverfetch ==
    \/ Receive(OverfetchRequests)
    \/ SearchPlaces

\* The search handler over the over-fetch datasets.
SpecOverfetch == InitOverfetch /\ [][NextOverfetch]_vars

(***************************************************************************)
(* Properties of the place search.                                         *)
(***************************************************************************)
SearchDone == call.op = "search" /\ ret.status = "ok"

\* The query occurs, case-insensitively, in the string.
ContainsCI(s, q) == Contains(Lower(s), Lower(q))

AliasHit(d, q) == \E a \in 1..Len(d.aliases) : ContainsCI(d.aliases[a], q)

NameHit(d, q) == ContainsCI(d.name, q) \/ ContainsCI(d.region_name, q)

\* Rows of the District table that match the query by name, region or alias.
MatchingDistricts(q) ==
    {i \in 1..Len(districts) : NameHit(districts[i], q) \/ AliasHit(districts[i], q)}

\* The result list holds a district result built from row i.
ReturnsDistrict(i) ==
    \E k \in 1..Len(ret.data) :
        ret.data[k].type = "district" /\ ret.data[k].row = i

\* C1: a district one of whose aliases contains the query, while neither its
\* name nor its region name does, is a match of the search: with fewer than
\* limit other matching districts (none of them computing the same id) it is
\* among the results.
C1_AliasMatchReturned ==
    (SearchDone /\ call.limit >= 1) =>
        \A i \in 1..Len(districts) :
            ( /\ AliasHit(districts[i], call.name)
              /\ ~NameHit(districts[i], call.name)
              /\ Cardinality(MatchingDistricts(call.name) \ {i}) < call.limit
              /\ \A j \in MatchingDistricts(call.name) \ {i} :
                    DistrictId(districts[j]) # DistrictId(districts[i]) )
            => ReturnsDistrict(i)

\* C2: a search with a positive limit returns at most limit results,
\* districts and regions together.
C2_SearchLimit ==
    (SearchDone /\ call.limit > 0) => Len(ret.data) <= call.limit

\* C2 witness: a search filled up to its limit by districts and regions
\* while more regions matched than were taken.
C2_Witness ==
    /\ SearchDone
    /\ call.limit > 0
    /\ Len(ret.data) = call.limit
    /\ \E k \in 1..Len(ret.data) : ret.data[k].type = "district"
    /\ \E k \in 1..Len(ret.data) : ret.data[k].type = "region"
    /\ Cardinality({i \in 1..Len(regions) :
                      ContainsCI(regions[i].name, call.name)})
         > Cardinality({k \in 1..Len(ret.data) : ret.data[k].type = "region"})

\* C3: no two results of one search carry the same id.
C3_SearchDedup ==
    SearchDone =>
        \A i, j \in 1..Len(ret.data) :
            i # j => ret.data[i].id # ret.data[j].id

\* C3 witness: a matching district and a matching region compute the same
\* id, two matching districts compute the same id, and a result carries it.
C3_Witness ==
    /\ SearchDone
    /\ call.limit > Len(ret.data)
    /\ \E i \in 1..Len(districts), r \in 1..Len(regions) :
          /\ NameHit(districts[i], call.name)
          /\ ContainsCI(regions[r].name, call.name)
          /\ DistrictId(districts[i]) = regions[r].code
          /\ \E k \in 1..Len(ret.data) : ret.data[k].id = regions[r].code
    /\ \E i, j \in 1..Len(districts) :
          /\ i # j
          /\ NameHit(districts[i], call.name)
          /\ NameHit(districts[j], call.name)
          /\ DistrictId(districts[i]) = DistrictId(districts[j])

\* C10: in a result list every district result precedes every region
\* result, and the results of each kind keep the order of their table.
C10_ResultOrder ==
    SearchDone =>
        \A i, j \in 1..Len(ret.data) :
            i < j =>
                /\ ret.data[i].type = "region" => ret.data[j].type = "region"
                /\ ret.data[i].type = ret.data[j].type
                      => ret.data[i].row < ret.data[j].row

\* C10 witness: two district results followed by a region result.
C10_Witness ==
    /\ SearchDone
    /\ Len(ret.data) = 3
    /\ ret.data[1].type = "district"
    /\ ret.data[2].type = "district"
    /\ ret.data[3].type = "region"

(***************************************************************************)
(* Properties of the location code helpers.                                *)
(***************************************************************************)
ComposeDone == call.op = "compose" /\ ret.status = "ok"

ParseDone == call.op = "parse" /\ ret.status # "pending"

\* A parse of the code that a compose request returned.
ParseOfComposeDone == ParseDone /\ call.of.op = "compose"

\* The decoded cell of the response, bounds included, contains the point.
CellContains(lat, lon) ==
    /\ ret.latitude_lo <= lat /\ lat <= ret.latitude_hi
    /\ ret.longitude_lo <= lon /\ lon <= ret.longitude_hi

\* parse(compose(lat, lon, regionCode)) succeeded and recovered both the
\* region code and a cell around the point.
RoundTrips ==
    /\ ret.status = "ok"
    /\ ret.region_code = call.of.region_code
    /\ CellContains(call.of.lat, call.of.lon)

\* C4 as claimed: for every in-range point and every supplied regionCode
\* string, parse(compose(lat, lon, regionCode)) succeeds and returns that
\* regionCode and a cell that contains the point.
C4_RoundTripEveryRegionCode ==
    ( /\ ParseOfComposeDone
      /\ InRange(call.of.lat, call.of.lon)
      /\ call.of.region_code # None )
    => RoundTrips

\* C4 as amended: for every in-range point with longitude below 180 and
\* every non-empty regionCode that holds no ":", parse(compose(lat, lon,
\* regionCode)) succeeds and returns that regionCode and a cell that
\* contains the point.
C4_RoundTrip ==
    ( /\ ParseOfComposeDone
      /\ InRange(call.of.lat, call.of.lon)
      /\ call.of.lon < 180 * Degree
      /\ call.of.region_code \notin {None, <<>>}
      /\ Count(call.of.region_code, ":") = 0 )
    => RoundTrips

\* C4 witness: a round trip at the north pole with a supplied region code.
C4_Witness ==
    /\ ParseOfComposeDone
    /\ call.of.lat = 90 * Degree
    /\ call.of.lon = E4(453182)
    /\ call.of.region_code = <<"S","O","M","-","H","R","S">>
    /\ RoundTrips

C6_ParseTwoSeparatorsFails ==
    (ParseDone /\ Count(call.code, ":") >= 2)
    => (ret.status = "error" /\ ret.err = "ValueError")

\* C6 witness: a rejected code whose text after the last ":" is a full code.
C6_Witness ==
    /\ ParseDone
    /\ Count(call.code, ":") >= 2
    /\ olc_isFull(Slice(call.code, RFind(call.code, ":") + 1, Len(call.code)))
    /\ ret.status = "error"

\* The region table entries whose box, bounds included, holds the point.
BoxesAround(lat, lon) ==
    {k \in 1..Len(RegionBoxes) :
        /\ RegionBoxes[k].lat_min <= lat /\ lat <= RegionBoxes[k].lat_max
        /\ RegionBoxes[k].lon_min <= lon /\ lon <= RegionBoxes[k].lon_max}

\* C7: compose returns regionCode ":" base when a (non-empty) regionCode is
\* supplied, whatever box the point lies in; otherwise "SOM-" R ":" base
\* when locate returns R, and the bare base code when locate returns None;
\* compose(2.0469, 45.3182, None) is prefixed SOM-BNR:.
C7_ComposePrefix ==
    ComposeDone =>
        LET base == generate_olc(call.lat, call.lon)
            R == get_region_from_coords(call.lat, call.lon)
        IN  /\ call.region_code \notin {None, <<>>} =>
                  ret.code = call.region_code \o <<":">> \o base
            /\ (call.region_code \in {None, <<>>} /\ R # None) =>
                  ret.code = <<"S","O","M","-">> \o R \o <<":">> \o base
            /\ (call.region_code \in {None, <<>>} /\ R = None) =>
                  ret.code = base
            /\ ( /\ call.lat = E4(20469) /\ call.lon = E4(453182)
                 /\ call.region_code = None ) =>
                  Take(ret.code, 8) = <<"S","O","M","-","B","N","R",":">>

\* C7 witness: a supplied prefix kept for a point inside another region's
\* box.
C7_Witness ==
    /\ ComposeDone
    /\ call.region_code = <<"S","O","M","-","H","R","S">>
    /\ BoxesAround(call.lat, call.lon) = {1}
    /\ Take(ret.code, 8) = <<"S","O","M","-","H","R","S",":">>

\* The decoded fields of a response are those of the plain code.
SameCell(r, d) ==
    /\ r.latitude_center = d.latitude_center
    /\ r.longitude_center = d.longitude_center
    /\ r.latitude_lo = d.latitude_lo /\ r.latitude_hi = d.latitude_hi
    /\ r.longitude_lo = d.longitude_lo /\ r.longitude_hi = d.longitude_hi
    /\ r.code_length = d.code_length

\* C8: for a code with exactly one ":" whose right-hand part decodes, parse
\* returns the cell of the right-hand part and region_code equal to the
\* left-hand part; for a code with no ":" it decodes the whole string and
\* region_code is None; region_code is None exactly when there is no prefix.
C8_ParseRegion ==
    ParseDone =>
        /\ \A k \in 1..Len(call.code) :
              ( /\ Count(call.code, ":") = 1
                /\ call.code[k] = ":"
                /\ decode_olc(SubSeq(call.code, k + 1, Len(call.code))).ok )
              => /\ ret.status = "ok"
                 /\ ret.region_code = SubSeq(call.code, 1, k - 1)
                 /\ SameCell(ret, decode_olc(SubSeq(call.code, k + 1, Len(call.code))))
        /\ Count(call.code, ":") = 0 =>
              /\ (ret.status = "ok") = decode_olc(call.code).ok
              /\ ret.status = "ok" =>
                    SameCell(ret, decode_olc(call.code))
        /\ ret.status = "ok" =>
              ((ret.region_code = None) <=> (Count(call.code, ":") = 0))

\* C8 witness: a prefixed code parsed into its prefix and cell.
C8_Witness ==
    /\ ParseDone
    /\ call.code = <<"S","O","M","-","B","N","R",":">> \o BaseCode
    /\ ret.status = "ok"
    /\ ret.region_code = <<"S","O","M","-","B","N","R">>
    /\ ret.latitude_lo = 0 /\ ret.longitude_lo = 0

\* C9: locate returns the code of the first table entry whose box holds the
\* point, all four bounds included, and None exactly when no box holds it.
C9_LocateFirstMatch ==
    (call.op = "locate" /\ ret.status = "ok") =>
        LET hits == BoxesAround(call.lat, call.lon)
        IN  IF hits = {} THEN ret.region = None
            ELSE ret.region =
                    RegionBoxes[CHOOSE k \in hits : \A j \in hits : k <= j].code

\* C9 witness: a point on the corner of the Banadir box is located there.
C9_Witness ==
    /\ call.op = "locate" /\ ret.status = "ok"
    /\ call.lat = E4(22000) /\ call.lon = E4(450000)
    /\ ret.region = <<"B","N","R">>

(***************************************************************************)
(* Further properties of the place search.                                 *)
(***************************************************************************)
SearchReturned == call.op = "search" /\ ret.status # "pending"

\* The rows behind the district results, in result order.
DistrictRows ==
    LET ds == SelectSeq(ret.data, LAMBDA r : r.type = "district")
    IN  [k \in 1..Len(ds) |-> ds[k].row]

\* Rows of the Region table whose name contains the query.
MatchingRegions(q) ==
    {i \in 1..Len(regions) : ContainsCI(regions[i].name, q)}

\* C11: a search with limit <= 0 fails instead of returning a result list.
C11_NonPositiveLimitFails ==
    (SearchReturned /\ call.limit <= 0) => ret.status = "error"

\* C12: a search whose query matches no district (by name, region name or
\* alias) and no region (by name) succeeds with an empty list and count 0,
\* and the count of every successful response is the length of its data.
C12_NoMatchIsEmptySuccess ==
    SearchReturned =>
        /\ ret.status = "ok" => ret.count = Len(ret.data)
        /\ (MatchingDistricts(call.name) = {} /\ MatchingRegions(call.name) = {})
              => (ret.status = "ok" /\ ret.data = <<>> /\ ret.count = 0)

\* Rows of the District table whose id no earlier row computes.
DistinctIdRows ==
    {i \in 1..Len(districts) :
        \A j \in 1..(i - 1) : DistrictId(districts[j]) # DistrictId(districts[i])}

\* C13: a search for the empty string with limit >= 1 is accepted, every
\* row matches, and the results are the first limit districts of distinct
\* id, in retrieval order, followed by regions only.
C13_EmptyQueryMatchesAll ==
    (SearchReturned /\ call.name = <<>> /\ call.limit >= 1) =>
        /\ ret.status = "ok"
        /\ DistrictRows = Take(Ascending(DistinctIdRows), call.limit)
        /\ \A k \in 1..Len(ret.data) :
              k > Len(DistrictRows) => ret.data[k].type = "region"

\* The district query without its LIMIT.
AllFetchedDistricts(name_lower) ==
    Ascending({i \in 1..Len(districts) :
                 \/ SqlContains(districts[i].name, name_lower)
                 \/ SqlContains(districts[i].region_name, name_lower)})

\* The exact computation: the district loop over every row the filter
\* admits.
ExactDistrictResults(name, limit) ==
    DistrictLoop(AllFetchedDistricts(Lower(name)), Lower(name), limit,
                 [results |-> <<>>, seen_ids |-> {}]).results

First3Upper(s) == [i \in 1..Min(3, Len(s)) |-> UpperChar(s[i])]

\* C17: the id of a district result is the district's code when it has
\* one, otherwise "SOM-" + the first 3 characters of its region name in
\* upper case + "-" + the first 3 characters of its name in upper case; the
\* id of a region result is the region's code.
C17_ResultIdentity ==
    SearchDone =>
        \A k \in 1..Len(ret.data) :
            LET r == ret.data[k]
            IN  /\ r.type = "district" =>
                      r.id = IF Len(districts[r.row].code) > 0
                             THEN districts[r.row].code
                             ELSE <<"S","O","M","-">>
                                  \o First3Upper(districts[r.row].region_name)
                                  \o <<"-">>
                                  \o First3Upper(districts[r.row].name)
                /\ r.type = "region" => r.id = regions[r.row].code

\* C17 witness: a district without a code returned under its fallback id,
\* next to a district returned under its code and a region under its code.
C17_Witness ==
    /\ SearchDone
    /\ \E k \in 1..Len(ret.data) :
          /\ ret.data[k].type = "district"
          /\ districts[ret.data[k].row].code = <<>>
          /\ ret.data[k].id = <<"S","O","M","-","H","I","I","-","B","E","L">>
    /\ \E k \in 1..Len(ret.data) :
          /\ ret.data[k].type = "district"
          /\ ret.data[k].id = <<"S","O","M","-","B","N","R","-","M","O","G">>
    /\ \E k \in 1..Len(ret.data) :
          /\ ret.data[k].type = "region"
          /\ ret.data[k].id = <<"S","O","M","-","H","R","S">>

(***************************************************************************)
(* Properties of the location code endpoints.                              *)
(***************************************************************************)
ResolveReturned == call.op = "resolve" /\ ret.status # "pending"

GenerateReturned == call.op = "generate" /\ ret.status # "pending"

\* A resolve of the code that a generate request returned.
ResolveOfGenerate == ResolveReturned /\ call.of.op = "generate"

\* The part of a code after its first ":", the whole code when it has none.
OlcPortion(code) ==
    IF Count(code, ":") = 0 THEN code
    ELSE Slice(code, Find(code, ":") + 1, Len(code))

\* C14: a resolve of a code whose OLC portion does not decode ends in HTTP
\* 400 and returns no LocationCodeResponse; a resolve of a code that decodes
\* returns a response whose code field is the input string unchanged.
C14_ResolveErrorMapping ==
    ResolveReturned =>
        IF olc_isFull(OlcPortion(call.code))
        THEN ret.status = "ok" /\ ret.code = call.code
        ELSE ret.status = "error" /\ ret.http = 400

\* C14 witness: the short code of the endpoint's own example, under a
\* region prefix, is refused with 400.
C14_Witness ==
    /\ ResolveReturned
    /\ call.code = <<"S","O","M","-","B","N","R",":","8","F","J","5","3","P","M","+">>
    /\ ret.status = "error"
    /\ ret.http = 400

\* C15: a generate request with lat outside [-90, 90] or lon outside
\* [-180, 180] ends in HTTP 400, and every in-range request succeeds.
C15_GenerateRangeCheck ==
    GenerateReturned =>
        IF InRange(call.lat, call.lon)
        THEN ret.status = "ok"
        ELSE ret.status = "error" /\ ret.http = 400

\* Half the height (and width) of a 10-digit cell.
Tolerance == CellUnits \div 2

Near(a, b) == a - b <= Tolerance /\ b - a <= Tolerance

\* generate succeeded with a centre within the tolerance of the point.
GenerateNear ==
    /\ ret.status = "ok"
    /\ Near(ret.latitude_center, call.lat)
    /\ Near(ret.longitude_center, call.lon)

\* resolve succeeded with the centre and region code generate returned.
ResolveAgrees ==
    /\ ret.status = "ok"
    /\ ret.latitude_center = call.gave.latitude_center
    /\ ret.longitude_center = call.gave.longitude_center
    /\ ret.region_code = call.gave.region_code

\* C16 as claimed: for every in-range point, generate returns a code whose
\* centre lies within the cell's tolerance of the point, and resolve of
\* that code succeeds with the same centre and region code.
C16_EndpointRoundTripEveryInRange ==
    /\ (GenerateReturned /\ InRange(call.lat, call.lon)) => GenerateNear
    /\ (ResolveOfGenerate /\ InRange(call.of.lat, call.of.lon)) => ResolveAgrees

\* C16 as amended: for every in-range point with longitude below 180,
\* generate returns a code whose centre lies within half a cell of the
\* point, and resolve of that code succeeds with the same centre and
\* region code.
C16_EndpointRoundTrip ==
    /\ ( /\ GenerateReturned
         /\ InRange(call.lat, call.lon)
         /\ call.lon < 180 * Degree ) => GenerateNear
    /\ ( /\ ResolveOfGenerate
         /\ InRange(call.of.lat, call.of.lon)
         /\ call.of.lon < 180 * Degree ) => ResolveAgrees

\* C16 witness: the code generated for a point in Mogadishu resolves to
\* the centre generate reported, under region SOM-BNR.
C16_Witness ==
    /\ ResolveOfGenerate
    /\ call.of.lat = E4(20469)
    /\ call.of.lon = E4(453182)
    /\ Near(call.gave.latitude_center, call.of.lat)
    /\ Near(call.gave.longitude_center, call.of.lon)
    /\ ResolveAgrees
    /\ ret.region_code = <<"S","O","M","-","B","N","R">>

(***************************************************************************)
(* Properties of concurrent calls.                                         *)
(***************************************************************************)
\* What a call returns when it runs alone, from start to end.
Alone(req) ==
    CASE req.op = "search" ->
            [status |-> "ok"] @@ search_places(req.name, req.limit)
      [] req.op = "compose" ->
            [status |-> "ok",
             code |-> generate_somalia_olc(req.lat, req.lon, req.region_code)]
      [] req.op = "parse" -> Response(decode_somalia_olc(req.code))

\* C18: whatever the interleaving of the search, compose and parse calls of
\* the threads over one dataset, every call returns the result it returns
\* when run alone.
C18_NoInterference ==
    \A p \in Threads :
        threads[p].pc = "done" => threads[p].result = Alone(threads[p].req)

\* C18 witness: two searches with the same query, each overlapped by the
\* other, have both returned the deduplicated districts and a region.
C18_Witness ==
    /\ \A p \in {1, 2} :
          /\ threads[p].pc = "done"
          /\ threads[p].overlapped
          /\ threads[p].req.op = "search"
          /\ threads[p].req.name = <<>>
          /\ threads[p].result.count = 3
    /\ threads[1].result = threads[2].result

(***************************************************************************)
(* Further properties of the search results.                               *)
(***************************************************************************)
\* District row j is fetched by the district query and passes the loop's
\* matches test.
ScannedMatch(j) ==
    /\ \E k \in 1..Len(FetchDistricts(Lower(call.name), call.limit)) :
          FetchDistricts(Lower(call.name), call.limit)[k] = j
    /\ Matches(districts[j], Lower(call.name))

\* C21: the result that carries an id is built from the first record in scan
\* order (districts in retrieval order, then regions) that computes that id:
\* no earlier scanned district has the id of a district result, a region
\* result's id is the id of no district result and the code of no earlier
\* name-matching region, and every result carries the fields of its record.
C21_FirstOccurrenceWins ==
    SearchDone =>
        \A k \in 1..Len(ret.data) :
            LET r == ret.data[k]
            IN  /\ r.type = "district" =>
                      /\ r.name = districts[r.row].name
                      /\ r.region = districts[r.row].region_name
                      /\ r.population = districts[r.row].population
                      /\ \A j \in 1..(r.row - 1) :
                            ScannedMatch(j) => DistrictId(districts[j]) # r.id
                /\ r.type = "region" =>
                      /\ r.name = regions[r.row].name
                      /\ r.population = regions[r.row].population
                      /\ \A m \in 1..Len(ret.data) :
                            ret.data[m].type = "district" => ret.data[m].id # r.id
                      /\ \A j \in 1..(r.row - 1) :
                            ContainsCI(regions[j].name, call.name)
                               => regions[j].code # r.id

\* C21 witness: Beledweyne and Belet Xaawo both match and compute the id
\* SOM-HII-BEL; the one result is built from the first of them, whichever
\* that is, with room left under the limit.
C21_Witness ==
    /\ SearchDone
    /\ Len(districts) = 2
    /\ districts[1] # districts[2]
    /\ DistrictId(districts[1]) = DistrictId(districts[2])
    /\ ScannedMatch(1) /\ ScannedMatch(2)
    /\ Len(ret.data) = 1
    /\ call.limit > 1
    /\ ret.data[1].row = 1
    /\ ret.data[1].name = districts[1].name
    /\ ret.data[1].name # districts[2].name

\* A district row with its name, region name and aliases in upper case.
UpperDistrict(d) ==
    [d EXCEPT !.name = Upper(d.name),
              !.region_name = Upper(d.region_name),
              !.aliases = [a \in 1..Len(d.aliases) |-> Upper(d.aliases[a])]]

\* A district row with its name, region name and aliases in lower case.
LowerDistrict(d) ==
    [d EXCEPT !.name = Lower(d.name),
              !.region_name = Lower(d.region_name),
              !.aliases = [a \in 1..Len(d.aliases) |-> Lower(d.aliases[a])]]

\* The district query fetches d, the loop accepts it, and it computes this id.
DistrictVerdict(d, q) ==
    [fetched |-> SqlContains(d.name, Lower(q)) \/ SqlContains(d.region_name, Lower(q)),
     matches |-> Matches(d, Lower(q)),
     id |-> DistrictId(d)]

\* C22: a query in upper case and the same query in lower case return the
\* result list of the query as sent, and a stored district or region is
\* fetched, matched and identified the same whether its name, region name
\* and aliases are stored as they are, in upper case or in lower case.
C22_CaseInsensitive ==
    SearchDone =>
        /\ search_places(Upper(call.name), call.limit).data = ret.data
        /\ search_places(Lower(call.name), call.limit).data = ret.data
        /\ \A i \in 1..Len(districts) :
              /\ DistrictVerdict(UpperDistrict(districts[i]), call.name)
                    = DistrictVerdict(districts[i], call.name)
              /\ DistrictVerdict(LowerDistrict(districts[i]), call.name)
                    = DistrictVerdict(districts[i], call.name)
        /\ \A i \in 1..Len(regions) :
              /\ SqlContains(Upper(regions[i].name), Lower(call.name))
                    = SqlContains(regions[i].name, Lower(call.name))
              /\ SqlContains(Lower(regions[i].name), Lower(call.name))
                    = SqlContains(regions[i].name, Lower(call.name))

\* C22 witness: the upper-case query BEL returns Beledweyne, whose stored
\* name is in mixed case, with the name as stored.
C22_Witness ==
    /\ SearchDone
    /\ call.name = <<"B","E","L">>
    /\ Lower(call.name) # call.name
    /\ \E k \in 1..Len(ret.data) :
          /\ ret.data[k].type = "district"
          /\ ret.data[k].name = <<"B","e","l","e","d","w","e","y","n","e">>
          /\ Lower(ret.data[k].name) # ret.data[k].name
          /\ Upper(ret.data[k].name) # ret.data[k].name

\* C23: every district fetched by the district query passes the loop's
\* matches test, and every district result has the query contained, case
\* ignored, in its name or its region name.
C23_RecheckNeverRejects ==
    SearchDone =>
        /\ \A k \in 1..Len(FetchDistricts(Lower(call.name), call.limit)) :
              Matches(districts[FetchDistricts(Lower(call.name), call.limit)[k]],
                      Lower(call.name))
        /\ \A k \in 1..Len(ret.data) :
              ret.data[k].type = "district"
                 => NameHit(districts[ret.data[k].row], call.name)

\* The results of one kind.
ResultsOfType(type) == SelectSeq(ret.data, LAMBDA r : r.type = type)

\* The codes, not used as the id of a district result, of the regions whose
\* name contains the query.
FreshRegionCodes ==
    {regions[i].code : i \in MatchingRegions(call.name)}
       \ {ResultsOfType("district")[k].id : k \in 1..Len(ResultsOfType("district"))}

\* C24: when the district phase yields d < limit results, the region phase
\* appends exactly min(limit - d, u) results, u being the number of distinct
\* fresh codes among the regions whose name contains the query.
C24_RegionFillExact ==
    (SearchDone /\ Len(ResultsOfType("district")) < call.limit) =>
        Len(ResultsOfType("region"))
           = Min(call.limit - Len(ResultsOfType("district")),
                 Cardinality(FreshRegionCodes))

(***************************************************************************)
(* Further properties of the location code helpers.                        *)
(***************************************************************************)
LocateDone == call.op = "locate" /\ ret.status = "ok"

\* The orders in which the region table can be iterated.
TableOrders ==
    {f \in [1..Len(RegionBoxes) -> 1..Len(RegionBoxes)] :
        \A a, b \in 1..Len(RegionBoxes) : a # b => f[a] # f[b]}

\* The code of the first box, in the given order, that holds the point.
LocateIn(order, lat, lon) ==
    LET hits == {n \in 1..Len(RegionBoxes) :
                    InBounds(RegionBoxes[order[n]], lat, lon)}
    IN  IF hits = {} THEN None
        ELSE RegionBoxes[order[CHOOSE n \in hits : \A m \in hits : n <= m]].code

\* Two boxes, bounds included, have no point in common.
Apart(a, b) ==
    \/ a.lat_max < b.lat_min \/ b.lat_max < a.lat_min
    \/ a.lon_max < b.lon_min \/ b.lon_max < a.lon_min

\* C28: the boxes of the region table are pairwise disjoint, so no point lies
\* in more than one box and locate returns the same region under every
\* iteration order of the table.
C28_BoxesDisjoint ==
    /\ \A a, b \in 1..Len(RegionBoxes) :
          a # b => Apart(RegionBoxes[a], RegionBoxes[b])
    /\ LocateDone =>
          /\ Cardinality(BoxesAround(call.lat, call.lon)) <= 1
          /\ \A order \in TableOrders :
                LocateIn(order, call.lat, call.lon) = ret.region

\* C28 witness: a point on the longitude that bounds both the BNR and the
\* HRS box, at a latitude inside the BNR and the SHB range, is in BNR alone.
C28_Witness ==
    /\ LocateDone
    /\ call.lat = E4(20469) /\ call.lon = E4(450000)
    /\ BoxesAround(call.lat, call.lon) = {1}
    /\ ret.region = <<"B","N","R">>

\* C29: compose with an empty regionCode returns the code that compose with
\* no regionCode returns, and every code compose returns either holds no
\* ":" or has a non-empty prefix before its first ":".
C29_EmptyRegionCodeNotSupplied ==
    ComposeDone =>
        /\ call.region_code = <<>> =>
              ret.code = generate_somalia_olc(call.lat, call.lon, None)
        /\ Count(ret.code, ":") = 0 \/ Find(ret.code, ":") > 0

\* C29 witness: an empty regionCode at a point in Banadir gives the inferred
\* prefix.
C29_Witness ==
    /\ ComposeDone
    /\ call.region_code = <<>>
    /\ call.lat = E4(20469) /\ call.lon = E4(453182)
    /\ Take(ret.code, 8) = <<"S","O","M","-","B","N","R",":">>
    /\ Count(ret.code, ":") = 1

(***************************************************************************)
(* Properties of the list endpoints.                                       *)
(***************************************************************************)
ListOps == {"read_districts", "read_regions", "read_roads", "read_airports"}

ListReturned == call.op \in ListOps /\ ret.status # "pending"

\* The stored rows that satisfy the filter of the list request.
StoredMatching ==
    CASE call.op = "read_districts" ->
            {i \in 1..Len(districts) :
                call.region \notin {None, <<>>}
                   => districts[i].region_name = call.region}
      [] call.op = "read_regions" -> 1..Len(regions)
      [] call.op = "read_roads" ->
            {i \in 1..Len(db.roads) :
                RoadMatches(db.roads[i], call.district, call.type)}
      [] call.op = "read_airports" ->
            {i \in 1..Len(db.airports) :
                call.type \notin {None, <<>>}
                   => db.airports[i].type = Lower(call.type)}

\* C25: for every skip and limit, a list response reports as count the
\* number of all stored rows that satisfy the filter of its data query, and
\* its data has at most limit rows.
C25_ListCountIsTotal ==
    (ListReturned /\ ret.status = "ok") =>
        /\ ret.count = Cardinality(StoredMatching)
        /\ Len(ret.data) <= call.limit

\* The request carries a non-empty type.
TypeSent == call.type \notin {None, <<>>}

\* The response of a request whose type, in lower case, is among accepted:
\* it is the response to the same request with the type in lower case, and
\* its rows carry that type.  Any other non-empty type ends in HTTP 400 with
\* no query executed.
TypeChecked(accepted, same) ==
    IF TypeSent /\ Lower(call.type) \notin accepted
    THEN ret.status = "error" /\ ret.http = 400 /\ ret.queries = 0
    ELSE TypeSent =>
            /\ ret = same
            /\ ret.status = "ok" =>
                  \A k \in 1..Len(ret.data) : ret.data[k].type = Lower(call.type)

TypeFilterChecked ==
    /\ (ListReturned /\ call.op = "read_roads") =>
          TypeChecked({<<"p","r","i","m","a","r","y">>,
                       <<"s","e","c","o","n","d","a","r","y">>},
                      read_roads(call.skip, call.limit, call.district,
                                 Lower(call.type)))
    /\ (ListReturned /\ call.op = "read_airports") =>
          TypeChecked({<<"i","n","t","e","r","n","a","t","i","o","n","a","l">>,
                       <<"d","o","m","e","s","t","i","c">>},
                      read_airports(call.skip, call.limit, Lower(call.type)))

\* C26: read_roads with a non-empty type other than primary or secondary,
\* and read_airports with a non-empty type other than international or
\* domestic (case ignored), end in HTTP 400 before any query is executed; an
\* accepted type is compared in lower case, so that it returns the rows and
\* count of its lower-case form; and no list request changes the data.
C26_TypeFilterValidation ==
    /\ []TypeFilterChecked
    /\ [][call'.op \in ListOps => UNCHANGED <<districts, regions, db>>]_vars

\* C26 witness: the road type tertiary is refused with 400 and no query.
C26_Witness ==
    /\ ListReturned
    /\ call.op = "read_roads"
    /\ call.type = <<"t","e","r","t","i","a","r","y">>
    /\ ret.http = 400
    /\ ret.queries = 0

(***************************************************************************)
(* Properties of the airport cleaning script.                              *)
(***************************************************************************)
CleanDone == call.op = "clean_airports" /\ ret.status = "ok"

\* C27: after clean_airports, every remaining airport has no code of a
\* neighbouring country and stored coordinates inside [1.5, 11.5] x
\* [41.0, 51.5], so that verify_airports finds all airports valid, and no
\* two remaining airports share their coordinates rounded to 4 decimals.
C27_CleanAirportsPostcondition ==
    CleanDone =>
        /\ \A i \in 1..Len(db.airports) :
              LET a == db.airports[i]
              IN  /\ ~is_neighboring_country_airport(a)
                  /\ 150000 <= a.latitude /\ a.latitude <= 1150000
                  /\ 4100000 <= a.longitude /\ a.longitude <= 5150000
        /\ verify_airports(db.airports)
        /\ \A i, j \in 1..Len(db.airports) :
              i # j => CoordKey(db.airports[i]) # CoordKey(db.airports[j])

(***************************************************************************)
(* Properties of the loader.                                               *)
(***************************************************************************)
LoadDone == call.op = "load_districts" /\ ret.status = "ok"

NonEmpty(s) == s # None /\ Len(s) > 0

\* The features of the districts file that have a name and a region.
NamedFeatures ==
    {k \in 1..Len(call.features) :
        /\ NonEmpty(normalize_field(call.features[k], DistrictNameFields, None))
        /\ NonEmpty(normalize_field(call.features[k], DistrictRegionFields, None))}

\* C30: after load_regions and then load_districts, every stored district has
\* a non-empty name and region_name and a region_id that refers to one
\* existing region, whose name is the district's region_name exactly or case
\* ignored; a feature without a name or a region creates no district and no
\* region: every region comes from the regions file or is the region of a
\* stored district.
C30_LoaderReferentialIntegrity ==
    LoadDone =>
        /\ \A i \in 1..Len(districts) :
              /\ NonEmpty(districts[i].name)
              /\ NonEmpty(districts[i].region_name)
              /\ Cardinality({j \in 1..Len(regions) :
                                 regions[j].id = districts[i].region_id}) = 1
              /\ \E j \in 1..Len(regions) :
                    /\ regions[j].id = districts[i].region_id
                    /\ \/ regions[j].name = districts[i].region_name
                       \/ Lower(regions[j].name) = Lower(districts[i].region_name)
        /\ Len(districts) = Cardinality(NamedFeatures)
        /\ \A j \in 1..Len(regions) :
              \/ \E k \in 1..Len(call.of.features) :
                    normalize_field(call.of.features[k], RegionNameFields, None)
                       = regions[j].name
              \/ \E i \in 1..Len(districts) :
                    /\ districts[i].region_id = regions[j].id
                    /\ districts[i].region_name = regions[j].name

\* C30 witness: Baidoa, of region "Bay", is attached to the loaded region
\* "bay", and Jowhar to a placeholder region Shabelle.
C30_Witness ==
    /\ LoadDone
    /\ Len(regions) = 2 /\ Len(districts) = 2
    /\ regions[1].name = <<"b","a","y">>
    /\ districts[1].region_name = <<"B","a","y">>
    /\ districts[1].region_id = regions[1].id
    /\ regions[2].name = <<"S","h","a","b","e","l","l","e">>
    /\ districts[2].region_name = regions[2].name
    /\ districts[2].region_id = regions[2].id
    /\ Len(call.of.features) = 1

=============================================================================
